---- MODULE Spec2Model ----
(***************************************************************************)
(* NewsFlowPro: the REST API of server/routes.ts over the in-memory store  *)
(* (MemStorage, the implementation bound to `storage`), and the persistent *)
(* store (DatabaseStorage) whose methods interleave at every awaited       *)
(* database call.                                                          *)
(*                                                                         *)
(* A JavaScript object is a function from its keys to its values; a key    *)
(* that is undefined is a key outside the DOMAIN.  A Map is the sequence   *)
(* of its values in insertion order.  A string is a sequence of one-letter *)
(* strings.  A JSON value of a request body is a pair <<type, value>>.     *)
(***************************************************************************)
EXTENDS Integers, Sequences, FiniteSets, TLC

\* ---------------------------------------------------------------- bounds
MaxSteps == 4
MaxCalls == 2

\* ------------------------------------------------------------ JS helpers
NULL == "null"

LowerChar(c) ==
  CASE c = "A" -> "a"
    [] c = "B" -> "b"
    [] OTHER -> c

toLowerCase(s) == [i \in 1..Len(s) |-> LowerChar(s[i])]

includes(s, q) ==
  \E i \in 0..(Len(s) - Len(q)) : SubSeq(s, i + 1, i + Len(q)) = q

\* { ...a, ...b }
Spread(a, b) ==
  [k \in (DOMAIN a) \cup (DOMAIN b) |-> IF k \in DOMAIN b THEN b[k] ELSE a[k]]

Without(r, ks) == [k \in (DOMAIN r) \ ks |-> r[k]]

Has(r, k) == k \in DOMAIN r

\* Array.prototype.sort((a, b) => b.createdAt - a.createdAt): stable
RECURSIVE InsertDesc(_, _)
InsertDesc(sorted, r) ==
  IF sorted = <<>> THEN <<r>>
  ELSE IF Head(sorted).createdAt >= r.createdAt
       THEN <<Head(sorted)>> \o InsertDesc(Tail(sorted), r)
       ELSE <<r>> \o sorted

RECURSIVE SortDesc(_)
SortDesc(s) ==
  IF s = <<>> THEN <<>>
  ELSE InsertDesc(SortDesc(SubSeq(s, 1, Len(s) - 1)), s[Len(s)])

Range(s) == {s[i] : i \in 1..Len(s)}

Ids(s) == {s[i].id : i \in 1..Len(s)}

\* Map.get
MapGet(m, id) == m[CHOOSE i \in 1..Len(m) : m[i].id = id]

\* Map.set: an existing key keeps its position, a new key goes last
MapSet(m, id, v) ==
  IF id \in Ids(m)
  THEN [i \in 1..Len(m) |-> IF m[i].id = id THEN v ELSE m[i]]
  ELSE Append(m, v)

\* Map.delete
MapDelete(m, id) == SelectSeq(m, LAMBDA r : r.id # id)

\* ---------------------------------------------------- schema validation
\* key -> <<JSON type, required>>; id, views, likes, createdAt, updatedAt
\* are omitted from the insert schema
insertArticleSchema ==
  [title |-> <<"string", TRUE>>, content |-> <<"string", TRUE>>,
   excerpt |-> <<"string", TRUE>>, author |-> <<"string", TRUE>>,
   authorTitle |-> <<"string", TRUE>>, category |-> <<"string", TRUE>>,
   authorImage |-> <<"string", FALSE>>, tags |-> <<"array", FALSE>>,
   imageUrl |-> <<"string", FALSE>>,
   published |-> <<"boolean", FALSE>>, featured |-> <<"boolean", FALSE>>]

insertCommentSchema ==
  [articleId |-> <<"string", TRUE>>, author |-> <<"string", TRUE>>,
   email |-> <<"string", TRUE>>, content |-> <<"string", TRUE>>]

insertCategorySchema ==
  [name |-> <<"string", TRUE>>, slug |-> <<"string", TRUE>>,
   color |-> <<"string", TRUE>>, description |-> <<"string", FALSE>>]

partial(schema) == [k \in DOMAIN schema |-> <<schema[k][1], FALSE>>]

\* parse of a schema declared .passthrough(): unknown keys are kept
parsePassthrough(schema, body) ==
  IF /\ \A k \in DOMAIN schema : schema[k][2] => k \in DOMAIN body
     /\ \A k \in (DOMAIN schema) \cap (DOMAIN body) : body[k][1] = schema[k][1]
  THEN [ok |-> TRUE, data |-> [k \in DOMAIN body |-> body[k][2]]]
  ELSE [ok |-> FALSE,
        details |-> {k \in DOMAIN schema :
                       \/ schema[k][2] /\ k \notin DOMAIN body
                       \/ k \in DOMAIN body /\ body[k][1] # schema[k][1]}]

\* parse of a schema whose keys are all optional
parseNoRequired(schema, body) ==
  IF \A k \in (DOMAIN schema) \cap (DOMAIN body) : body[k][1] = schema[k][1]
  THEN [ok |-> TRUE,
        data |-> [k \in (DOMAIN schema) \cap (DOMAIN body) |-> body[k][2]]]
  ELSE [ok |-> FALSE,
        details |-> {k \in (DOMAIN schema) \cap (DOMAIN body) :
                       body[k][1] # schema[k][1]}]

\* schema.parse(body): a ZodError when a required key is missing or a value
\* has the wrong type; otherwise the body without its unknown keys
parse(schema, body) ==
  IF /\ \A k \in DOMAIN schema : schema[k][2] => k \in DOMAIN body
     /\ \A k \in (DOMAIN schema) \cap (DOMAIN body) : body[k][1] = schema[k][1]
  THEN [ok |-> TRUE,
        data |-> [k \in (DOMAIN schema) \cap (DOMAIN body) |-> body[k][2]]]
  ELSE [ok |-> FALSE,
        details |-> {k \in DOMAIN schema :
                       \/ schema[k][2] /\ k \notin DOMAIN body
                       \/ k \in DOMAIN body /\ body[k][1] # schema[k][1]}]

\* ------------------------------------------------------------- the state
VARIABLES
  articles,    \* MemStorage.articles
  comments,    \* MemStorage.comments
  categories,  \* MemStorage.categories
  nextId,      \* the next value of randomUUID()
  now,         \* the clock read by new Date()
  req,         \* the latest request
  res,         \* the response to the latest request
  likeRun,     \* history: the current run of like requests on one article
  dbArticles,  \* the articles table of DatabaseStorage
  dbComments,  \* the comments table of DatabaseStorage
  dbCategories, \* the categories table of DatabaseStorage
  calls,       \* the DatabaseStorage calls in progress
  dbRes,       \* the result of the latest finished DatabaseStorage call
  dbLog,       \* history: the increments that found and updated their row
  cache,       \* the client's query cache: query key -> cached query
  toasts,      \* the notifications the client has shown, oldest first
  form,        \* the state of the client's comment and article forms
  mutation,    \* the client mutation that settled last
  run,         \* the responses sent by the latest run of a route handler
  view,        \* what the client's components rendered last
  loop,        \* the server's event loop: the running and suspended handlers
  counted,     \* history: the increments the in-memory store has executed
  steps        \* the number of steps taken so far

memVars == <<articles, comments, categories, req, res, likeRun>>
dbVars == <<dbArticles, dbComments, dbCategories, calls, dbRes, dbLog>>
clientVars == <<cache, toasts, form, mutation>>
auxVars == <<run, view, loop, counted>>
vars == <<articles, comments, categories, nextId, now, req, res, likeRun,
          dbArticles, dbComments, dbCategories, calls, dbRes, dbLog,
          cache, toasts, form, mutation, run, view, loop,
          counted, steps>>

Step == steps < MaxSteps /\ steps' = steps + 1

\* --------------------------------------------------------------- inputs
Titles == {<<"A", "b">>, <<"b">>}
Categories == {<<"A">>, <<"a">>, <<"B">>}

ArticleBody(t, c) ==
  [title |-> <<"string", t>>, content |-> <<"string", <<"a">>>>,
   excerpt |-> <<"string", <<"a">>>>, author |-> <<"string", <<"B">>>>,
   authorTitle |-> <<"string", <<"a">>>>, category |-> <<"string", c>>]

\* what a client may send as the body of POST /api/articles
ArticleBodies ==
  {ArticleBody(<<"A", "b">>, <<"a">>),
   Spread(ArticleBody(<<"b">>, <<"A">>),
          [published |-> <<"boolean", TRUE>>, featured |-> <<"boolean", TRUE>>,
           id |-> <<"number", 3>>, views |-> <<"number", 2>>,
           likes |-> <<"number", 3>>, createdAt |-> <<"number", 0>>,
           updatedAt |-> <<"number", 0>>]),
   Without(ArticleBody(<<"b">>, <<"A">>), {"title"}),
   Spread(ArticleBody(<<"b">>, <<"A">>), [category |-> <<"number", 1>>])}

\* bodies of PUT /api/articles/:id
UpdateBodies ==
  {[published |-> <<"boolean", FALSE>>],
   [category |-> <<"string", <<"a">>>>, id |-> <<"number", 3>>,
    views |-> <<"number", 0>>, likes |-> <<"number", 0>>],
   [title |-> <<"number", 1>>]}

CommentBody ==
  [author |-> <<"string", <<"a">>>>, email |-> <<"string", <<"b">>>>,
   content |-> <<"string", <<"a">>>>]

CommentBodies ==
  {CommentBody, Without(CommentBody, {"content"}),
   Spread(CommentBody, [articleId |-> <<"string", 1>>])}

CategoryBody(n, s) ==
  [name |-> <<"string", n>>, slug |-> <<"string", s>>,
   color |-> <<"string", <<"b">>>>]

CategoryBodies ==
  {CategoryBody(<<"B", "a">>, <<"b", "a">>), CategoryBody(<<"A">>, <<"a">>),
   Without(CategoryBody(<<"A">>, <<"a">>), {"name"}),
   Without(CategoryBody(<<"A">>, <<"a">>), {"slug", "color"})}

CategoryUpdates == {[name |-> <<"B", "a">>], [color |-> <<"a">>]}

\* req.query of GET /api/articles and GET /api/search
RawQueries ==
  {<<>>,
   [category |-> <<"a">>, published |-> "true"],
   [published |-> "false", featured |-> "1"],
   [query |-> <<"B">>],
   [query |-> <<>>, category |-> <<>>, featured |-> "true"]}

\* ------------------------------------------------------------ MemStorage
seedCategories ==
  << [id |-> 1, name |-> <<"A">>, slug |-> <<"a">>,
      description |-> <<"a">>, color |-> <<"b">>],
     [id |-> 2, name |-> <<"B">>, slug |-> <<"b">>,
      description |-> <<"a">>, color |-> <<"a">>] >>

seedArticles ==
  << [id |-> 3, title |-> <<"A", "b">>, content |-> <<"a">>,
      excerpt |-> <<"a">>, author |-> <<"B">>, authorTitle |-> <<"a">>,
      authorImage |-> <<"a">>, category |-> <<"A">>, tags |-> <<<<"A">>>>,
      imageUrl |-> <<"a">>, published |-> TRUE, featured |-> TRUE,
      views |-> 2, likes |-> 1, createdAt |-> 0, updatedAt |-> 0],
     [id |-> 4, title |-> <<"b">>, content |-> <<"a">>,
      excerpt |-> <<"a">>, author |-> <<"a">>, authorTitle |-> <<"a">>,
      authorImage |-> <<"a">>, category |-> <<"B">>, tags |-> <<<<"B">>>>,
      imageUrl |-> <<"a">>, published |-> TRUE, featured |-> FALSE,
      views |-> 1, likes |-> 1, createdAt |-> 0, updatedAt |-> 0] >>

Truthy(o, k) == Has(o, k) /\ o[k] # <<>>

\* getArticles comparing the category without toLowerCase
MemGetArticlesCaseSensitive(arts, params) ==
  LET q == toLowerCase(params.query)
      a1 == IF Truthy(params, "query")
            THEN SelectSeq(arts, LAMBDA a :
                   \/ includes(toLowerCase(a.title), q)
                   \/ includes(toLowerCase(a.content), q)
                   \/ includes(toLowerCase(a.author), q))
            ELSE arts
      a2 == IF Truthy(params, "category")
            THEN SelectSeq(a1, LAMBDA a : a.category = params.category)
            ELSE a1
      a3 == IF Has(params, "published")
            THEN SelectSeq(a2, LAMBDA a :
                   Has(a, "published") /\ a.published = params.published)
            ELSE a2
      a4 == IF Has(params, "featured")
            THEN SelectSeq(a3, LAMBDA a :
                   Has(a, "featured") /\ a.featured = params.featured)
            ELSE a3
  IN SortDesc(a4)

MemGetArticles(arts, params) ==
  LET q == toLowerCase(params.query)
      a1 == IF Truthy(params, "query")
            THEN SelectSeq(arts, LAMBDA a :
                   \/ includes(toLowerCase(a.title), q)
                   \/ includes(toLowerCase(a.content), q)
                   \/ includes(toLowerCase(a.author), q))
            ELSE arts
      a2 == IF Truthy(params, "category")
            THEN SelectSeq(a1, LAMBDA a :
                   toLowerCase(a.category) = toLowerCase(params.category))
            ELSE a1
      a3 == IF Has(params, "published")
            THEN SelectSeq(a2, LAMBDA a :
                   Has(a, "published") /\ a.published = params.published)
            ELSE a2
      a4 == IF Has(params, "featured")
            THEN SelectSeq(a3, LAMBDA a :
                   Has(a, "featured") /\ a.featured = params.featured)
            ELSE a3
  IN SortDesc(a4)

\* createArticle leaving views and likes to a column default
MemCreateArticleNoZero(insertArticle, id, t) ==
  Spread(insertArticle,
    [id |-> id,
     authorImage |-> IF Truthy(insertArticle, "authorImage")
                     THEN insertArticle.authorImage ELSE NULL,
     tags |-> IF Has(insertArticle, "tags") THEN insertArticle.tags ELSE <<>>,
     imageUrl |-> IF Truthy(insertArticle, "imageUrl")
                  THEN insertArticle.imageUrl ELSE NULL,
     createdAt |-> t, updatedAt |-> t])

MemCreateArticle(insertArticle, id, t) ==
  Spread(insertArticle,
    [id |-> id,
     authorImage |-> IF Truthy(insertArticle, "authorImage")
                     THEN insertArticle.authorImage ELSE NULL,
     tags |-> IF Has(insertArticle, "tags") THEN insertArticle.tags ELSE <<>>,
     imageUrl |-> IF Truthy(insertArticle, "imageUrl")
                  THEN insertArticle.imageUrl ELSE NULL,
     views |-> 0, likes |-> 0, createdAt |-> t, updatedAt |-> t])

\* updateArticle that stores the update under a missing id
MemUpdateArticleUpsert(arts, id, updates, t) ==
  IF id \notin Ids(arts)
  THEN MapSet(arts, id, Spread(updates, [id |-> id, updatedAt |-> t]))
  ELSE MapSet(arts, id,
              Spread(Spread(MapGet(arts, id), updates), [updatedAt |-> t]))

MemUpdateArticle(arts, id, updates, t) ==
  IF id \notin Ids(arts) THEN arts
  ELSE MapSet(arts, id,
              Spread(Spread(MapGet(arts, id), updates), [updatedAt |-> t]))

\* a delete that removes the first entry whatever the id
MemDeleteArticleFirst(arts, id) ==
  IF arts = <<>> THEN arts ELSE Tail(arts)

MemDeleteArticle(arts, id) ==
  MapDelete(arts, id)

\* incrementViews raising the wrong counter
MemIncrementViewsLikes(arts, id) ==
  IF id \in Ids(arts)
  THEN MapSet(arts, id, [MapGet(arts, id) EXCEPT !.likes = @ + 1])
  ELSE arts

MemIncrementViews(arts, id) ==
  IF id \in Ids(arts)
  THEN MapSet(arts, id, [MapGet(arts, id) EXCEPT !.views = @ + 1])
  ELSE arts

\* toggleLike that does not store the raised counter
MemToggleLikeNoStore(arts, id) == arts

MemToggleLike(arts, id) ==
  IF id \in Ids(arts)
  THEN MapSet(arts, id, [MapGet(arts, id) EXCEPT !.likes = @ + 1])
  ELSE arts

MemGetCommentsByArticleId(cs, articleId) ==
  SortDesc(SelectSeq(cs, LAMBDA c : c.articleId = articleId))

\* createComment giving every comment the same id
MemCreateCommentSameId(insertComment, id, t) ==
  Spread(insertComment, [id |-> 5, createdAt |-> t])

MemCreateComment(insertComment, id, t) ==
  Spread(insertComment, [id |-> id, createdAt |-> t])

\* a delete that removes every comment of the deleted comment's article
MemDeleteCommentThread(cs, id) ==
  IF id \notin Ids(cs) THEN cs
  ELSE SelectSeq(cs, LAMBDA c : c.articleId # MapGet(cs, id).articleId)

MemDeleteComment(cs, id) ==
  MapDelete(cs, id)

MemGetCategoryBySlug(cats, slug) ==
  LET hits == SelectSeq(cats, LAMBDA c : c.slug = slug)
  IN IF hits = <<>> THEN <<>> ELSE <<Head(hits)>>

MemCreateCategory(insertCategory, id) ==
  Spread(insertCategory,
    [id |-> id,
     description |-> IF Truthy(insertCategory, "description")
                     THEN insertCategory.description ELSE NULL])

MemUpdateCategory(cats, id, updates) ==
  IF id \notin Ids(cats) THEN cats
  ELSE MapSet(cats, id, Spread(MapGet(cats, id), updates))

MemDeleteCategory(cats, id) == MapDelete(cats, id)

\* ------------------------------------------------------- DatabaseStorage
\* s LIKE p, where % matches any run of letters and _ any one letter
RECURSIVE LikeMatch(_, _)
LikeMatch(s, p) ==
  IF p = <<>> THEN s = <<>>
  ELSE IF Head(p) = "%"
       THEN LikeMatch(s, Tail(p)) \/ (s # <<>> /\ LikeMatch(Tail(s), p))
       ELSE /\ s # <<>>
            /\ Head(p) = "_" \/ Head(p) = Head(s)
            /\ LikeMatch(Tail(s), Tail(p))

ilike(column, p) == LikeMatch(toLowerCase(column), toLowerCase(p))

\* the rows a SELECT without ORDER BY may return: any order
AnyOrder(rows) ==
  {[i \in 1..Len(rows) |-> rows[f[i]]] :
     f \in {g \in [1..Len(rows) -> 1..Len(rows)] :
              \A i, j \in 1..Len(rows) : i # j => g[i] # g[j]}}

\* the rows selected by getArticles, before ORDER BY created_at DESC
DbGetArticlesWhere(rows, params) ==
  SelectSeq(rows, LAMBDA a :
    /\ Truthy(params, "category")
         => ilike(a.category, <<"%">> \o params.category \o <<"%">>)
    /\ Truthy(params, "query")
         => ilike(a.title, <<"%">> \o params.query \o <<"%">>)
    /\ Has(params, "featured") => a.featured = params.featured)

\* rows with equal created_at come in any order
DbGetArticles(rows, params) ==
  {r \in AnyOrder(DbGetArticlesWhere(rows, params)) :
     \A i \in 1..(Len(r) - 1) : r[i].createdAt >= r[i + 1].createdAt}

\* the row INSERT INTO articles stores: column defaults fill what is missing
DbCreateArticle(article, id, t) ==
  Spread([authorImage |-> NULL, tags |-> <<>>, imageUrl |-> NULL,
          published |-> FALSE, featured |-> FALSE, views |-> 0, likes |-> 0],
         Spread(article, [id |-> id, createdAt |-> t, updatedAt |-> t]))

\* UPDATE articles SET ... WHERE id = id
DbUpdate(rows, id, set) ==
  [i \in 1..Len(rows) |-> IF rows[i].id = id THEN Spread(rows[i], set)
                          ELSE rows[i]]

DbGetCommentsByArticleId(rows, articleId) ==
  AnyOrder(SelectSeq(rows, LAMBDA c : c.articleId = articleId))

Idle == [pc |-> "idle", id |-> 0, article |-> <<>>]

\* ------------------------------------------------------ server/routes.ts
NoRun == [id |-> 0, n |-> 0, base |-> 0]

\* at: the step that handled it, which tells two equal requests apart
Request(op, id, input) ==
  [op |-> op, id |-> id, input |-> input, at |-> steps']

Response(op, id, status, body) ==
  [op |-> op, id |-> id, status |-> status, body |-> body]

\* useState({ author: "", email: "", content: "" })
emptyComment == [author |-> <<>>, email |-> <<>>, content |-> <<>>]

\* a filter that takes every value other than 'true' for no filter
safeParamsTrueOnly(queryParams) ==
  LET ks == {k \in {"query", "category"} : Truthy(queryParams, k)}
            \cup {k \in {"published", "featured"} :
                    Has(queryParams, k) /\ queryParams[k] = "true"}
  IN [k \in ks |-> IF k \in {"published", "featured"}
                   THEN TRUE
                   ELSE queryParams[k]]

\* the typed filter built from req.query
safeParams(queryParams) ==
  LET ks == {k \in {"query", "category"} : Truthy(queryParams, k)}
            \cup {k \in {"published", "featured"} : Has(queryParams, k)}
  IN [k \in ks |-> IF k \in {"published", "featured"}
                   THEN queryParams[k] = "true"
                   ELSE queryParams[k]]

\* a handler that is not running
IdleTask == [pc |-> "idle", op |-> "none", id |-> 0, found |-> FALSE, seen |-> 0]

\* no increment executed yet, on any id a store can come to hold
noneCounted ==
  [likes |-> [id \in 1..(8 + MaxSteps) |-> 0],
   views |-> [id \in 1..(8 + MaxSteps) |-> 0]]

\* nothing rendered yet
noView ==
  [component |-> "none", trendingArticles |-> <<>>, recent |-> <<>>,
   related |-> <<>>, props |-> <<>>, at |-> 0]

Init ==
  /\ categories = seedCategories
  /\ articles = seedArticles
  /\ comments = <<>>
  /\ nextId = 5
  /\ now = 0
  /\ req = [op |-> "none", id |-> 0, input |-> <<>>, at |-> 0]
  /\ res = Response("none", 0, 0, <<>>)
  /\ likeRun = NoRun
  /\ dbArticles = seedArticles
  /\ dbComments = <<>>
  /\ dbCategories = seedCategories
  /\ calls = [p \in 1..MaxCalls |-> Idle]
  /\ dbRes = Response("none", 0, 0, <<>>)
  /\ dbLog = <<>>
  /\ cache = <<>>
  /\ toasts = <<>>
  /\ form = [isFormOpen |-> FALSE, selectedArticle |-> 0,
             isCommenting |-> FALSE, comment |-> emptyComment,
             section |-> emptyComment, tags |-> <<>>, newTag |-> <<>>]
  /\ mutation = [name |-> "none", status |-> "idle", at |-> 0]
  /\ run = [op |-> "none", sent |-> <<>>, escaped |-> FALSE]
  /\ view = noView
  /\ loop = [running |-> 0, tasks |-> [p \in 1..MaxCalls |-> IdleTask]]
  /\ counted = noneCounted
  /\ steps = 0

\* time passes between two requests
Tick ==
  /\ Step
  /\ now' = now + 1
  /\ UNCHANGED <<memVars, nextId, dbVars, clientVars, auxVars>>

\* GET /api/articles
GetArticlesHandler(queryParams) ==
  /\ Step
  /\ req' = Request("GET /api/articles", 0, queryParams)
  /\ res' = Response("GET /api/articles", 0, 200,
                     MemGetArticles(articles, safeParams(queryParams)))
  /\ likeRun' = NoRun
  /\ UNCHANGED <<articles, comments, categories, nextId, now, dbVars, auxVars>>

GetArticles(queryParams) ==
  GetArticlesHandler(queryParams) /\ UNCHANGED clientVars

\* GET /api/search
Search(queryParams) ==
  /\ Step
  /\ req' = Request("GET /api/search", 0, queryParams)
  /\ res' = Response("GET /api/search", 0, 200,
                     MemGetArticles(articles, safeParams(queryParams)))
  /\ likeRun' = NoRun
  /\ UNCHANGED <<articles, comments, categories, nextId, now, dbVars,
               clientVars, auxVars>>

\* GET /api/articles/:id
GetArticleHandler(id) ==
  /\ Step
  /\ req' = Request("GET /api/articles/:id", id, <<>>)
  /\ IF id \notin Ids(articles)
     THEN /\ res' = Response("GET /api/articles/:id", id, 404, <<>>)
          /\ UNCHANGED articles
     ELSE /\ articles' = MemIncrementViews(articles, id)
          /\ res' = Response("GET /api/articles/:id", id, 200,
                             MapGet(articles', id))
  /\ likeRun' = NoRun
  /\ UNCHANGED <<comments, categories, nextId, now, dbVars, auxVars>>

GetArticle(id) ==
  GetArticleHandler(id) /\ UNCHANGED clientVars

\* POST /api/articles
PostArticleHandler(body) ==
  /\ Step
  /\ req' = Request("POST /api/articles", 0, body)
  /\ LET articleData == parse(insertArticleSchema, body)
         article == MemCreateArticle(articleData.data, nextId, now)
     IN IF articleData.ok
        THEN /\ articles' = MapSet(articles, nextId, article)
             /\ nextId' = nextId + 1
             /\ res' = Response("POST /api/articles", 0, 201, article)
        ELSE /\ res' = Response("POST /api/articles", 0, 400,
                                articleData.details)
             /\ UNCHANGED <<articles, nextId>>
  /\ likeRun' = NoRun
  /\ UNCHANGED <<comments, categories, now, dbVars, auxVars>>

PostArticle(body) ==
  PostArticleHandler(body) /\ UNCHANGED clientVars

\* PUT /api/articles/:id
PutArticleHandler(id, body) ==
  /\ Step
  /\ req' = Request("PUT /api/articles/:id", id, body)
  /\ LET articleData == parse(partial(insertArticleSchema), body)
     IN IF ~articleData.ok
        THEN /\ res' = Response("PUT /api/articles/:id", id, 400,
                                articleData.details)
             /\ UNCHANGED articles
        ELSE IF id \notin Ids(articles)
        THEN /\ res' = Response("PUT /api/articles/:id", id, 404, <<>>)
             /\ articles' = MemUpdateArticle(articles, id, articleData.data, now)
        ELSE /\ articles' = MemUpdateArticle(articles, id, articleData.data, now)
             /\ res' = Response("PUT /api/articles/:id", id, 200,
                                MapGet(articles', id))
  /\ likeRun' = NoRun
  /\ UNCHANGED <<comments, categories, nextId, now, dbVars, auxVars>>

PutArticle(id, body) ==
  PutArticleHandler(id, body) /\ UNCHANGED clientVars

\* DELETE /api/articles/:id
DeleteArticleHandler(id) ==
  /\ Step
  /\ req' = Request("DELETE /api/articles/:id", id, <<>>)
  /\ articles' = MemDeleteArticle(articles, id)
  /\ res' = Response("DELETE /api/articles/:id", id,
                     IF id \in Ids(articles) THEN 204 ELSE 404, <<>>)
  /\ likeRun' = NoRun
  /\ UNCHANGED <<comments, categories, nextId, now, dbVars, auxVars>>

DeleteArticle(id) ==
  DeleteArticleHandler(id) /\ UNCHANGED clientVars

\* POST /api/articles/:id/like
LikeArticleHandler(id) ==
  /\ Step
  /\ req' = Request("POST /api/articles/:id/like", id, <<>>)
  /\ articles' = MemToggleLike(articles, id)
  /\ IF id \in Ids(articles)
     THEN /\ res' = Response("POST /api/articles/:id/like", id, 200,
                             [likes |-> MapGet(articles', id).likes])
          /\ likeRun' = IF likeRun.id = id
                        THEN [likeRun EXCEPT !.n = @ + 1]
                        ELSE [id |-> id, n |-> 1,
                              base |-> MapGet(articles, id).likes]
     ELSE /\ res' = Response("POST /api/articles/:id/like", id, 404, <<>>)
          /\ likeRun' = NoRun
  /\ UNCHANGED <<comments, categories, nextId, now, dbVars, auxVars>>

LikeArticle(id) ==
  LikeArticleHandler(id) /\ UNCHANGED clientVars

\* POST /api/articles/:id/views
PostViewsHandler(id) ==
  /\ Step
  /\ req' = Request("POST /api/articles/:id/views", id, <<>>)
  /\ articles' = MemIncrementViews(articles, id)
  /\ res' = Response("POST /api/articles/:id/views", id, 200, <<>>)
  /\ likeRun' = NoRun
  /\ UNCHANGED <<comments, categories, nextId, now, dbVars, auxVars>>

PostViews(id) ==
  PostViewsHandler(id) /\ UNCHANGED clientVars

\* GET /api/articles/:articleId/comments
GetCommentsHandler(articleId) ==
  /\ Step
  /\ req' = Request("GET /api/articles/:articleId/comments", articleId, <<>>)
  /\ res' = Response("GET /api/articles/:articleId/comments", articleId, 200,
                     MemGetCommentsByArticleId(comments, articleId))
  /\ likeRun' = NoRun
  /\ UNCHANGED <<articles, comments, categories, nextId, now, dbVars, auxVars>>

GetComments(articleId) ==
  GetCommentsHandler(articleId) /\ UNCHANGED clientVars

\* POST /api/articles/:articleId/comments
PostCommentHandler(articleId, body) ==
  /\ Step
  /\ req' = Request("POST /api/articles/:articleId/comments", articleId, body)
  /\ LET commentData ==
           parse(insertCommentSchema,
                 Spread(body, [articleId |-> <<"string", articleId>>]))
         comment == MemCreateComment(commentData.data, nextId, now)
     IN IF commentData.ok
        THEN /\ comments' = MapSet(comments, nextId, comment)
             /\ nextId' = nextId + 1
             /\ res' = Response("POST /api/articles/:articleId/comments",
                                articleId, 201, comment)
        ELSE /\ res' = Response("POST /api/articles/:articleId/comments",
                                articleId, 400, commentData.details)
             /\ UNCHANGED <<comments, nextId>>
  /\ likeRun' = NoRun
  /\ UNCHANGED <<articles, categories, now, dbVars, auxVars>>

PostComment(articleId, body) ==
  PostCommentHandler(articleId, body) /\ UNCHANGED clientVars

\* DELETE /api/comments/:id
DeleteCommentHandler(id) ==
  /\ Step
  /\ req' = Request("DELETE /api/comments/:id", id, <<>>)
  /\ comments' = MemDeleteComment(comments, id)
  /\ res' = Response("DELETE /api/comments/:id", id,
                     IF id \in Ids(comments) THEN 204 ELSE 404, <<>>)
  /\ likeRun' = NoRun
  /\ UNCHANGED <<articles, categories, nextId, now, dbVars, auxVars>>

DeleteComment(id) ==
  DeleteCommentHandler(id) /\ UNCHANGED clientVars

\* GET /api/categories
GetCategories ==
  /\ Step
  /\ req' = Request("GET /api/categories", 0, <<>>)
  /\ res' = Response("GET /api/categories", 0, 200, categories)
  /\ likeRun' = NoRun
  /\ UNCHANGED <<articles, comments, categories, nextId, now, dbVars,
               clientVars, auxVars>>

\* GET /api/categories/:slug
GetCategoryBySlug(slug) ==
  /\ Step
  /\ req' = Request("GET /api/categories/:slug", 0, slug)
  /\ LET category == MemGetCategoryBySlug(categories, slug)
     IN res' = Response("GET /api/categories/:slug", 0,
                        IF category = <<>> THEN 404 ELSE 200, category)
  /\ likeRun' = NoRun
  /\ UNCHANGED <<articles, comments, categories, nextId, now, dbVars,
               clientVars, auxVars>>

\* POST /api/categories
PostCategory(body) ==
  /\ Step
  /\ req' = Request("POST /api/categories", 0, body)
  /\ LET categoryData == parse(insertCategorySchema, body)
         category == MemCreateCategory(categoryData.data, nextId)
     IN IF categoryData.ok
        THEN /\ categories' = MapSet(categories, nextId, category)
             /\ nextId' = nextId + 1
             /\ res' = Response("POST /api/categories", 0, 201, category)
        ELSE /\ res' = Response("POST /api/categories", 0, 400,
                                categoryData.details)
             /\ UNCHANGED <<categories, nextId>>
  /\ likeRun' = NoRun
  /\ UNCHANGED <<articles, comments, now, dbVars, clientVars, auxVars>>

\* an updateCategory that carries a new name over to the articles
UpdateCategoryCascade(id, updates) ==
  /\ Step
  /\ req' = Request("updateCategory", id, updates)
  /\ categories' = MemUpdateCategory(categories, id, updates)
  /\ res' = Response("updateCategory", id, 0,
                     IF id \in Ids(categories)
                     THEN <<MapGet(categories', id)>> ELSE <<>>)
  /\ articles' =
       IF id \in Ids(categories) /\ Has(updates, "name")
       THEN [i \in 1..Len(articles) |->
               IF articles[i].category = MapGet(categories, id).name
               THEN [articles[i] EXCEPT !.category = updates.name]
               ELSE articles[i]]
       ELSE articles
  /\ likeRun' = NoRun
  /\ UNCHANGED <<comments, nextId, now, dbVars, clientVars, auxVars>>

\* storage.updateCategory(id, updates), which no route calls
UpdateCategory(id, updates) ==
  /\ Step
  /\ req' = Request("updateCategory", id, updates)
  /\ categories' = MemUpdateCategory(categories, id, updates)
  /\ res' = Response("updateCategory", id, 0,
                     IF id \in Ids(categories)
                     THEN <<MapGet(categories', id)>> ELSE <<>>)
  /\ likeRun' = NoRun
  /\ UNCHANGED <<articles, comments, nextId, now, dbVars, clientVars, auxVars>>

\* storage.deleteCategory(id), which no route calls
DeleteCategory(id) ==
  /\ Step
  /\ req' = Request("deleteCategory", id, <<>>)
  /\ categories' = MemDeleteCategory(categories, id)
  /\ res' = Response("deleteCategory", id, 0, id \in Ids(categories))
  /\ likeRun' = NoRun
  /\ UNCHANGED <<articles, comments, nextId, now, dbVars, clientVars, auxVars>>

\* one <url> element of the sitemap
Url(loc, lastmod, changefreq, priority) ==
  [loc |-> loc, lastmod |-> lastmod, changefreq |-> changefreq,
   priority |-> priority]

\* the <url> elements of sitemap.xml in document order; loc is the path
\* after baseUrl, as the template's literal part and its ${...} part
staticUrls(currentDate) ==
  <<Url(<<"/">>, currentDate, "daily", "1.0"),
    Url(<<"/search">>, currentDate, "weekly", "0.6"),
    Url(<<"/admin">>, currentDate, "weekly", "0.4")>>

\* a sitemap that lists the published articles only
sitemapUrlsPublished(arts, cats, currentDate) ==
  staticUrls(currentDate)
    \o [i \in 1..Len(cats) |->
         Url(<<"/category/", cats[i].slug>>, currentDate, "daily", "0.8")]
    \o LET pub == SelectSeq(arts, LAMBDA a :
                    Has(a, "published") /\ a.published = TRUE)
       IN [i \in 1..Len(pub) |->
            Url(<<"/article/", pub[i].id>>, pub[i].updatedAt, "weekly", "0.7")]

sitemapUrls(arts, cats, currentDate) ==
  staticUrls(currentDate)
    \o [i \in 1..Len(cats) |->
         Url(<<"/category/", cats[i].slug>>, currentDate, "daily", "0.8")]
    \o [i \in 1..Len(arts) |->
         Url(<<"/article/", arts[i].id>>, arts[i].updatedAt, "weekly", "0.7")]

\* GET /sitemap.xml
Sitemap ==
  /\ Step
  /\ req' = Request("GET /sitemap.xml", 0, <<>>)
  /\ res' = Response("GET /sitemap.xml", 0, 200,
                     sitemapUrls(MemGetArticles(articles, <<>>), categories,
                                 now))
  /\ likeRun' = NoRun
  /\ UNCHANGED <<articles, comments, categories, nextId, now, dbVars,
               clientVars, auxVars>>

\* the rules of robots.txt for User-agent: *
robotsTxt ==
  [allow |-> {<<"/">>, <<"/category/">>, <<"/article/">>, <<"/search">>},
   disallow |-> {<<"/admin">>},
   sitemap |-> <<"/sitemap.xml">>]

\* GET /robots.txt
Robots ==
  /\ Step
  /\ req' = Request("GET /robots.txt", 0, <<>>)
  /\ res' = Response("GET /robots.txt", 0, 200, robotsTxt)
  /\ likeRun' = NoRun
  /\ UNCHANGED <<articles, comments, categories, nextId, now, dbVars,
               clientVars, auxVars>>

\* ------------------------------------------------------------ the client
\* The query cache is the list of cached queries, each with its queryKey,
\* its data (<<>> while undefined, <<d>> once d was fetched) and the flag
\* invalidateQueries sets. A queryKey is a tuple of segments; an id segment
\* is the id's text and an object segment its JSON text.
articlesKey == <<"/api/articles">>

publishedKey == <<"/api/articles", "{published:true}">>

articleKey(id) == <<"/api/articles", ToString(id)>>

commentsKey(articleId) == <<"/api/comments", ToString(articleId)>>

sectionCommentsKey(articleId) ==
  <<"/api/articles", ToString(articleId), "comments">>

\* the articles a page of the client shows
PageIds == {3, 4}

\* partialMatchKey: the query's key starts with the filter's key
partialMatchKey(queryKey, filterKey) ==
  /\ Len(filterKey) <= Len(queryKey)
  /\ \A i \in 1..Len(filterKey) : queryKey[i] = filterKey[i]

\* queryClient.invalidateQueries({ queryKey })
invalidateQueries(c, queryKey) ==
  [i \in 1..Len(c) |->
     IF partialMatchKey(c[i].queryKey, queryKey)
     THEN [c[i] EXCEPT !.isInvalidated = TRUE] ELSE c[i]]

\* a fetch of the query settled: data is <<d>>, or <<>> when it failed
setQueryData(c, queryKey, data) ==
  LET query == [queryKey |-> queryKey, data |-> data, isInvalidated |-> FALSE]
  IN IF \E i \in 1..Len(c) : c[i].queryKey = queryKey
     THEN [i \in 1..Len(c) |->
             IF c[i].queryKey = queryKey THEN query ELSE c[i]]
     ELSE Append(c, query)

\* the data of a cached query, <<>> when there is none
getQueryData(c, queryKey) ==
  LET hits == SelectSeq(c, LAMBDA q : q.queryKey = queryKey)
  IN IF hits = <<>> THEN <<>> ELSE Head(hits).data

\* toast({ title, variant })
toast(title, variant) ==
  toasts' = Append(toasts, [title |-> title, variant |-> variant])

\* the mutation's promise settled
Settled(name, rejected) ==
  mutation' = [name |-> name,
               status |-> IF rejected THEN "error" ELSE "success",
               at |-> steps']

\* Admin and RelatedArticles: useQuery({ queryKey: ["/api/articles"] })
articlesQuery ==
  /\ GetArticlesHandler(<<>>)
  /\ cache' = setQueryData(cache, articlesKey, <<res'.body>>)
  /\ UNCHANGED <<toasts, form, mutation>>

\* Home and Sidebar: useQuery of ["/api/articles", { published: true }]
publishedQuery ==
  /\ GetArticlesHandler([published |-> "true"])
  /\ cache' = setQueryData(cache, publishedKey, <<res'.body>>)
  /\ UNCHANGED <<toasts, form, mutation>>

\* Article: useQuery({ queryKey: ["/api/articles", id] })
articleQuery(id) ==
  /\ GetArticleHandler(id)
  /\ cache' = setQueryData(cache, articleKey(id),
                           IF res'.status = 200 THEN <<res'.body>> ELSE <<>>)
  /\ UNCHANGED <<toasts, form, mutation>>

\* CommentSystem: useQuery({ queryKey: ["/api/comments", articleId] })
commentsQuery(articleId) ==
  /\ GetCommentsHandler(articleId)
  /\ cache' = setQueryData(cache, commentsKey(articleId), <<res'.body>>)
  /\ UNCHANGED <<toasts, form, mutation>>

\* CommentSection: useQuery of ["/api/articles", articleId, "comments"]
sectionCommentsQuery(articleId) ==
  /\ GetCommentsHandler(articleId)
  /\ cache' = setQueryData(cache, sectionCommentsKey(articleId), <<res'.body>>)
  /\ UNCHANGED <<toasts, form, mutation>>

\* the ids of the entities a cached list shows
dataIds(data) == IF data = <<>> THEN {} ELSE Ids(data[1])

\* an event handler that touches the component state only
ClientOnly ==
  /\ Step
  /\ UNCHANGED <<memVars, nextId, now, dbVars, cache, toasts, mutation, auxVars>>

\* Admin.handleCreate
handleCreate ==
  /\ ClientOnly
  /\ form' = [form EXCEPT !.selectedArticle = 0, !.isFormOpen = TRUE]

\* Admin.handleEdit(article), for an article of the listed ones
handleEdit(id) ==
  /\ id \in dataIds(getQueryData(cache, articlesKey))
  /\ ClientOnly
  /\ form' = [form EXCEPT !.selectedArticle = id, !.isFormOpen = TRUE]

\* what the user types into a comment form
typedComment == [author |-> <<"a">>, email |-> <<"b">>, content |-> <<"a">>]

\* CommentSystem: setIsCommenting(true) and setComment on every input
setComment ==
  /\ ClientOnly
  /\ form' = [form EXCEPT !.isCommenting = TRUE, !.comment = typedComment]

\* CommentSection: setAuthor, setEmail, setContent
setSection ==
  /\ ClientOnly
  /\ form' = [form EXCEPT !.section = typedComment]

\* the values ArticleForm submits: every field of the form
formData(title) ==
  Spread(ArticleBody(title, <<"A">>),
         [authorImage |-> <<"string", <<>>>>, tags |-> <<"array", <<>>>>,
          imageUrl |-> <<"string", <<>>>>,
          published |-> <<"boolean", TRUE>>,
          featured |-> <<"boolean", FALSE>>])

\* the body a comment form submits
commentData(c) ==
  [author |-> <<"string", c.author>>, email |-> <<"string", c.email>>,
   content |-> <<"string", c.content>>]

\* handleSubmit's check that every field is filled
filled(c) == c.author # <<>> /\ c.email # <<>> /\ c.content # <<>>

\* ArticleForm.createMutation
createMutation(rejected) ==
  /\ form.isFormOpen /\ form.selectedArticle = 0
  /\ PostArticleHandler(formData(<<"b">>))
  /\ Settled("ArticleForm.createMutation", rejected)
  /\ IF rejected
     THEN /\ toast("Error", "destructive")
          /\ UNCHANGED <<cache, form>>
     ELSE /\ cache' = invalidateQueries(cache, articlesKey)
          /\ toast("Article created", "default")
          /\ form' = [form EXCEPT !.isFormOpen = FALSE]

\* ArticleForm.updateMutation
updateMutation(rejected) ==
  /\ form.isFormOpen /\ form.selectedArticle # 0
  /\ PutArticleHandler(form.selectedArticle, formData(<<"B">>))
  /\ Settled("ArticleForm.updateMutation", rejected)
  /\ IF rejected
     THEN /\ toast("Error", "destructive")
          /\ UNCHANGED <<cache, form>>
     ELSE /\ cache' = invalidateQueries(cache, articlesKey)
          /\ toast("Article updated", "default")
          /\ form' = [form EXCEPT !.isFormOpen = FALSE]

\* Admin.deleteArticleMutation
deleteArticleMutation(id, rejected) ==
  /\ id \in dataIds(getQueryData(cache, articlesKey))
  /\ DeleteArticleHandler(id)
  /\ Settled("Admin.deleteArticleMutation", rejected)
  /\ IF rejected
     THEN /\ toast("Error", "destructive")
          /\ UNCHANGED cache
     ELSE /\ cache' = invalidateQueries(cache, articlesKey)
          /\ toast("Article deleted", "default")
  /\ UNCHANGED form

\* ArticleCard.likeMutation, from a card of the home page
cardLikeMutation(id, rejected) ==
  /\ id \in dataIds(getQueryData(cache, publishedKey))
  /\ LikeArticleHandler(id)
  /\ Settled("ArticleCard.likeMutation", rejected)
  /\ cache' = IF rejected THEN cache
              ELSE invalidateQueries(cache, articlesKey)
  /\ UNCHANGED <<toasts, form>>

\* Article.likeMutation, on the page of a loaded article
likeMutation(id, rejected) ==
  /\ getQueryData(cache, articleKey(id)) # <<>>
  /\ LikeArticleHandler(id)
  /\ Settled("Article.likeMutation", rejected)
  /\ cache' = IF rejected THEN cache
              ELSE invalidateQueries(cache, articleKey(id))
  /\ UNCHANGED <<toasts, form>>

\* Article.incrementViewMutation, once the article is loaded
incrementViewMutation(id, rejected) ==
  /\ getQueryData(cache, articleKey(id)) # <<>>
  /\ PostViewsHandler(id)
  /\ Settled("Article.incrementViewMutation", rejected)
  /\ UNCHANGED <<cache, toasts, form>>

\* CommentSystem.createCommentMutation, from handleSubmit
createCommentMutation(articleId, rejected) ==
  /\ form.isCommenting /\ filled(form.comment)
  /\ PostCommentHandler(articleId, commentData(form.comment))
  /\ Settled("CommentSystem.createCommentMutation", rejected)
  /\ IF rejected
     THEN /\ toast("Error", "destructive")
          /\ UNCHANGED <<cache, form>>
     ELSE /\ cache' = invalidateQueries(cache, commentsKey(articleId))
          /\ form' = [form EXCEPT !.comment = emptyComment,
                                  !.isCommenting = FALSE]
          /\ toast("Comment posted!", "default")

\* CommentSystem.deleteCommentMutation, from the button of a listed comment
deleteCommentMutation(articleId, commentId, rejected) ==
  /\ commentId \in dataIds(getQueryData(cache, commentsKey(articleId)))
  /\ DeleteCommentHandler(commentId)
  /\ Settled("CommentSystem.deleteCommentMutation", rejected)
  /\ IF rejected
     THEN UNCHANGED <<cache, toasts>>
     ELSE /\ cache' = invalidateQueries(cache, commentsKey(articleId))
          /\ toast("Comment deleted", "default")
  /\ UNCHANGED form

\* CommentSection.createCommentMutation, from handleSubmit
sectionCreateCommentMutation(articleId, rejected) ==
  /\ filled(form.section)
  /\ PostCommentHandler(articleId, commentData(form.section))
  /\ Settled("CommentSection.createCommentMutation", rejected)
  /\ IF rejected
     THEN /\ toast("Error", "destructive")
          /\ UNCHANGED <<cache, form>>
     ELSE /\ cache' = invalidateQueries(cache, sectionCommentsKey(articleId))
          /\ form' = [form EXCEPT !.section = emptyComment]
          /\ toast("Comment posted!", "default")

\* Array.prototype.slice(start, end)
slice(s, start, end) ==
  SubSeq(s, start + 1, IF end < Len(s) THEN end ELSE Len(s))

\* Array.prototype.sort((a, b) => (b.views || 0) - (a.views || 0)): stable
RECURSIVE InsertByViews(_, _)
InsertByViews(sorted, r) ==
  IF sorted = <<>> THEN <<r>>
  ELSE IF Head(sorted).views >= r.views
       THEN <<Head(sorted)>> \o InsertByViews(Tail(sorted), r)
       ELSE <<r>> \o sorted

RECURSIVE sortByViews(_)
sortByViews(s) ==
  IF s = <<>> THEN <<>>
  ELSE InsertByViews(sortByViews(SubSeq(s, 1, Len(s) - 1)), s[Len(s)])

\* the trending list taking its five before sorting them
trendingArticlesSliceFirst(list) ==
  sortByViews(slice(list, 0, 5))

\* Sidebar: articles.sort(...).slice(0, 5)
trendingArticles(list) ==
  slice(sortByViews(list), 0, 5)

\* Sidebar renders. `articles` is the array the query cache holds (an empty
\* one while the query has no data); sort() orders that array in place, so
\* the cache and the Recent Stories below it hold the sorted array.
Sidebar ==
  /\ Step
  /\ LET data == getQueryData(cache, publishedKey)
         list == IF data = <<>> THEN <<>> ELSE data[1]
         sorted == sortByViews(list)
     IN /\ view' = [view EXCEPT !.trendingArticles = trendingArticles(list),
                                !.recent = slice(sorted, 0, 4),
                                !.component = "Sidebar",
                                !.at = steps']
        /\ cache' = [i \in 1..Len(cache) |->
                       IF cache[i].queryKey = publishedKey
                          /\ cache[i].data # <<>>
                       THEN [cache[i] EXCEPT !.data = <<sorted>>]
                       ELSE cache[i]]
  /\ UNCHANGED <<memVars, nextId, now, dbVars, toasts, form, mutation, run,
               loop, counted>>

\* the views of the stored articles
ViewCounts == 0..2

\* the sizes of the store: empty, the trending five and one more
StoreSizes == {0, 2, 5, 6}

\* a store of n published articles, the oldest first
storedArticles(n, v) ==
  [i \in 1..n |->
     [seedArticles[1] EXCEPT !.id = i + 2, !.views = v[i],
                             !.createdAt = i, !.updatedAt = i]]

\* the state after construction over a store of articles, the article form
\* mounted with a list of tags
InitOver(arts, tags) ==
  /\ articles = arts
  /\ nextId = Len(arts) + 3
  /\ now = Len(arts)
  /\ categories = seedCategories
  /\ comments = <<>>
  /\ req = [op |-> "none", id |-> 0, input |-> <<>>, at |-> 0]
  /\ res = Response("none", 0, 0, <<>>)
  /\ likeRun = NoRun
  /\ dbArticles = seedArticles
  /\ dbComments = <<>>
  /\ dbCategories = seedCategories
  /\ calls = [p \in 1..MaxCalls |-> Idle]
  /\ dbRes = Response("none", 0, 0, <<>>)
  /\ dbLog = <<>>
  /\ cache = <<>>
  /\ toasts = <<>>
  /\ form = [isFormOpen |-> FALSE, selectedArticle |-> 0,
             isCommenting |-> FALSE, comment |-> emptyComment,
             section |-> emptyComment, tags |-> tags, newTag |-> <<>>]
  /\ mutation = [name |-> "none", status |-> "idle", at |-> 0]
  /\ run = [op |-> "none", sent |-> <<>>, escaped |-> FALSE]
  /\ view = noView
  /\ loop = [running |-> 0, tasks |-> [p \in 1..MaxCalls |-> IdleTask]]
  /\ counted = noneCounted
  /\ steps = 0

InitStore(arts) == InitOver(arts, <<>>)

InitSidebar ==
  \E n \in StoreSizes : \E v \in [1..n -> ViewCounts] :
    InitStore(storedArticles(n, v))

\* RelatedArticles: the .filter callback
isRelated(article, currentArticle) ==
  IF article.id = currentArticle.id THEN FALSE
  ELSE IF article.category = currentArticle.category THEN TRUE
  ELSE LET currentTags == IF Has(currentArticle, "tags")
                          THEN currentArticle.tags ELSE <<>>
           articleTags == IF Has(article, "tags") THEN article.tags ELSE <<>>
       IN \E i \in 1..Len(currentTags) : \E j \in 1..Len(articleTags) :
            articleTags[j] = currentTags[i]

\* the comparator without the category priority
relatedBeforeByDate(a, b, currentArticle) ==
  b.createdAt - a.createdAt < 0

\* RelatedArticles: the .sort comparator is negative (a goes first)
relatedBefore(a, b, currentArticle) ==
  LET aIsCategory == IF a.category = currentArticle.category THEN 1 ELSE 0
      bIsCategory == IF b.category = currentArticle.category THEN 1 ELSE 0
  IN IF aIsCategory # bIsCategory
     THEN bIsCategory - aIsCategory < 0
     ELSE b.createdAt - a.createdAt < 0

RECURSIVE InsertRelated(_, _, _)
InsertRelated(sorted, r, currentArticle) ==
  IF sorted = <<>> THEN <<r>>
  ELSE IF relatedBefore(r, Head(sorted), currentArticle)
       THEN <<r>> \o sorted
       ELSE <<Head(sorted)>> \o InsertRelated(Tail(sorted), r, currentArticle)

\* Array.prototype.sort with the comparator above: stable
RECURSIVE sortRelated(_, _)
sortRelated(s, currentArticle) ==
  IF s = <<>> THEN <<>>
  ELSE InsertRelated(sortRelated(SubSeq(s, 1, Len(s) - 1), currentArticle),
                     s[Len(s)], currentArticle)

\* allArticles.filter(...).sort(...).slice(0, maxResults)
relatedArticles(allArticles, currentArticle, maxResults) ==
  slice(sortRelated(SelectSeq(allArticles,
                              LAMBDA a : isRelated(a, currentArticle)),
                    currentArticle),
        0, maxResults)

\* the maxResults a page passes: the page's 4, and a shorter list
MaxResultsProps == {2, 4}

\* the Article page of a loaded article renders its RelatedArticles
RelatedArticles(id, maxResults) ==
  /\ Step
  /\ getQueryData(cache, articleKey(id)) # <<>>
  /\ LET currentArticle == getQueryData(cache, articleKey(id))[1]
         data == getQueryData(cache, articlesKey)
         allArticles == IF data = <<>> THEN <<>> ELSE data[1]
     IN view' = [view EXCEPT
                   !.related = relatedArticles(allArticles, currentArticle,
                                               maxResults),
                   !.component = "RelatedArticles",
                   !.props = <<id, maxResults>>,
                   !.at = steps']
  /\ UNCHANGED <<memVars, nextId, now, dbVars, clientVars, run, loop, counted>>

\* what a stored article may be to another: its category and its tags
ArticleKinds ==
  { [category |-> <<"A">>, tags |-> <<<<"A">>>>],
    [category |-> <<"B">>, tags |-> <<<<"B">>, <<"A">>>>],
    [category |-> <<"B">>, tags |-> <<>>] }

\* a store of n articles, the oldest first
kindArticles(n, k) ==
  [i \in 1..n |->
     [seedArticles[1] EXCEPT !.id = i + 2, !.category = k[i].category,
                             !.tags = k[i].tags,
                             !.createdAt = i, !.updatedAt = i]]

InitRelated ==
  \E n \in {2, 6} : \E k \in [1..n -> ArticleKinds] :
    InitStore(kindArticles(n, k))

\* ------------------------------------------------ ArticleForm: the tags
\* String.prototype.trim
RECURSIVE trimStart(_)
trimStart(s) ==
  IF s # <<>> /\ Head(s) = " " THEN trimStart(Tail(s)) ELSE s

RECURSIVE trimEnd(_)
trimEnd(s) ==
  IF s # <<>> /\ s[Len(s)] = " " THEN trimEnd(SubSeq(s, 1, Len(s) - 1)) ELSE s

trim(s) == trimEnd(trimStart(s))

\* the test of addTag looking for the text as typed
canAddTagUntrimmed(newTag, tags) ==
  /\ trim(newTag) # <<>>
  /\ newTag \notin Range(tags)

\* newTag.trim() && !form.getValues("tags").includes(newTag.trim())
canAddTag(newTag, tags) ==
  /\ trim(newTag) # <<>>
  /\ trim(newTag) \notin Range(tags)

\* what the user types into the tag input
TypedTags ==
  {<<>>, <<" ">>, <<"a">>, <<" ", "a">>, <<"a", " ">>, <<"b">>, <<"A">>,
   <<"a", " ", "b">>}

\* the tags an edited article may bring: no duplicates, no blank entries
MountedTags ==
  {<<>>, <<<<"a">>>>, <<<<"b">>>>, <<<<"b">>, <<"a">>>>,
   <<<<"A">>, <<"a", " ", "b">>>>}

\* the form rendered after an event of its tag editor
Rendered(event) ==
  view' = [view EXCEPT !.component = "ArticleForm", !.props = event,
                       !.at = steps']

TagEvent ==
  /\ Step
  /\ UNCHANGED <<memVars, nextId, now, dbVars, cache, toasts, mutation, run,
                 loop, counted>>

\* onChange of the tag input: setNewTag(e.target.value)
setNewTag(text) ==
  /\ TagEvent
  /\ form' = [form EXCEPT !.newTag = text]
  /\ Rendered(<<"setNewTag">>)

\* ArticleForm.addTag
addTag ==
  /\ TagEvent
  /\ form' = IF canAddTag(form.newTag, form.tags)
             THEN [form EXCEPT !.tags = Append(form.tags, trim(form.newTag)),
                               !.newTag = <<>>]
             ELSE form
  /\ Rendered(<<"addTag">>)

\* ArticleForm.removeTag(tagToRemove), from the button of a listed tag
removeTag(tagToRemove) ==
  /\ tagToRemove \in Range(form.tags)
  /\ TagEvent
  /\ form' = [form EXCEPT
                !.tags = SelectSeq(form.tags, LAMBDA tag : tag # tagToRemove)]
  /\ Rendered(<<"removeTag", tagToRemove>>)

InitTags ==
  \E tags \in MountedTags : InitOver(seedArticles, tags)

\* ------------------------------------------- the handlers on the event loop
\* A handler runs on the one JavaScript thread until it reaches an await;
\* only then another handler may run.  The methods of MemStorage are async
\* functions without an await inside, so a call of one runs to its return.

\* the counter a route raises
counterOf(op) == IF op = "POST /api/articles/:id/like" THEN "likes" ELSE "views"

\* a thread given up after every statement
holderYielding(pc, p) == 0

\* the handler holding the thread after handler p reached pc
holder(pc, p) ==
  IF pc = "got" THEN p ELSE 0

\* the handler starts and calls toggleLike or incrementViews, which runs
\* this.articles.get(id) and evaluates (article.likes || 0) + 1
StorageCall(p, op, id) ==
  /\ Step
  /\ loop.running = 0
  /\ loop.tasks[p].pc = "idle"
  /\ LET found == id \in Ids(articles)
         pc == IF found THEN "got" ELSE "await"
         seen == IF found THEN MapGet(articles, id)[counterOf(op)] ELSE 0
     IN loop' = [running |-> holder(pc, p),
                 tasks |-> [loop.tasks EXCEPT ![p] =
                   [pc |-> pc, op |-> op, id |-> id, found |-> found,
                    seen |-> seen + 1]]]
  /\ UNCHANGED <<memVars, nextId, now, dbVars, clientVars, run, view, counted>>

\* the assignment to the counter, this.articles.set(id, article) and the
\* return; the handler now awaits the returned promise
StorageStore(p) ==
  /\ Step
  /\ loop.running \in {0, p}
  /\ loop.tasks[p].pc = "got"
  /\ LET t == loop.tasks[p]
         c == counterOf(t.op)
     IN /\ articles' = MapSet(articles, t.id,
                              [MapGet(articles, t.id) EXCEPT ![c] = t.seen])
        /\ counted' = [counted EXCEPT ![c][t.id] = @ + 1]
        /\ loop' = [running |-> holder("await", p),
                    tasks |-> [loop.tasks EXCEPT ![p].pc = "await"]]
  /\ UNCHANGED <<comments, categories, req, res, likeRun, nextId, now, dbVars,
                 clientVars, run, view>>

\* the awaited promise resolved: the handler sends its response. The like
\* route reads article.likes of the stored object it was handed.
HandlerRespond(p) ==
  /\ Step
  /\ loop.running = 0
  /\ loop.tasks[p].pc = "await"
  /\ LET t == loop.tasks[p]
     IN /\ req' = Request(t.op, t.id, <<>>)
        /\ res' = IF t.op = "POST /api/articles/:id/views"
                  THEN Response(t.op, t.id, 200, <<>>)
                  ELSE IF t.found
                  THEN Response(t.op, t.id, 200,
                                [likes |-> MapGet(articles, t.id).likes])
                  ELSE Response(t.op, t.id, 404, <<>>)
  /\ loop' = [loop EXCEPT !.tasks[p] = IdleTask]
  /\ likeRun' = NoRun
  /\ UNCHANGED <<articles, comments, categories, nextId, now, dbVars,
                 clientVars, run, view, counted>>

CounterRoutes == {"POST /api/articles/:id/like", "POST /api/articles/:id/views"}

Next ==
  \/ Tick
  \/ Sitemap
  \/ Robots
  \/ \E q \in RawQueries : GetArticles(q)
  \/ \E q \in RawQueries : Search(q)
  \/ \E id \in 3..nextId : GetArticle(id)
  \/ \E body \in ArticleBodies : PostArticle(body)
  \/ \E id \in 3..nextId, body \in UpdateBodies : PutArticle(id, body)
  \/ \E id \in 3..nextId : DeleteArticle(id)
  \/ \E id \in 3..nextId : LikeArticle(id)
  \/ \E id \in 3..nextId : PostViews(id)
  \/ \E id \in 3..nextId : GetComments(id)
  \/ \E id \in 3..nextId, body \in CommentBodies : PostComment(id, body)
  \/ \E id \in 3..nextId : DeleteComment(id)
  \/ GetCategories
  \/ \E slug \in {<<"a">>, <<"b", "a">>, <<"A">>} : GetCategoryBySlug(slug)
  \/ \E body \in CategoryBodies : PostCategory(body)
  \/ \E id \in 1..nextId, u \in CategoryUpdates : UpdateCategory(id, u)
  \/ \E id \in 1..nextId : DeleteCategory(id)

  \/ articlesQuery
  \/ publishedQuery
  \/ \E id \in PageIds : articleQuery(id)
  \/ \E id \in PageIds : commentsQuery(id)
  \/ \E id \in PageIds : sectionCommentsQuery(id)
  \/ handleCreate
  \/ \E id \in PageIds : handleEdit(id)
  \/ setComment
  \/ setSection
  \/ \E rejected \in BOOLEAN : createMutation(rejected)
  \/ \E rejected \in BOOLEAN : updateMutation(rejected)
  \/ \E id \in PageIds, rejected \in BOOLEAN :
       deleteArticleMutation(id, rejected)
  \/ \E id \in PageIds, rejected \in BOOLEAN : cardLikeMutation(id, rejected)
  \/ \E id \in PageIds, rejected \in BOOLEAN : likeMutation(id, rejected)
  \/ \E id \in PageIds, rejected \in BOOLEAN :
       incrementViewMutation(id, rejected)
  \/ \E id \in PageIds, rejected \in BOOLEAN :
       createCommentMutation(id, rejected)
  \/ \E id \in PageIds, c \in 5..nextId, rejected \in BOOLEAN :
       deleteCommentMutation(id, c, rejected)
  \/ \E id \in PageIds, rejected \in BOOLEAN :
       sectionCreateCommentMutation(id, rejected)
  \/ Sidebar
  \/ \E id \in PageIds, maxResults \in MaxResultsProps :
       RelatedArticles(id, maxResults)
  \/ \E p \in 1..MaxCalls, op \in CounterRoutes, id \in 3..nextId :
       StorageCall(p, op, id)
  \/ \E p \in 1..MaxCalls : StorageStore(p)
  \/ \E p \in 1..MaxCalls : HandlerRespond(p)
  \/ \E text \in TypedTags : setNewTag(text)
  \/ addTag
  \/ \E tag \in Range(form.tags) : removeTag(tag)

Spec == Init /\ [][Next]_vars

\* the sidebar over a store of published articles
NextSidebar ==
  \/ publishedQuery
  \/ Sidebar
  \/ \E id \in PageIds : PostViews(id)

SpecSidebar == InitSidebar /\ [][NextSidebar]_vars

\* concurrent like and view requests on the in-memory store
NextLoop ==
  \/ \E p \in 1..MaxCalls, op \in CounterRoutes, id \in 3..nextId :
       StorageCall(p, op, id)
  \/ \E p \in 1..MaxCalls : StorageStore(p)
  \/ \E p \in 1..MaxCalls : HandlerRespond(p)

SpecLoop == Init /\ [][NextLoop]_vars

\* the tag editor of the article form
NextTags ==
  \/ \E text \in TypedTags : setNewTag(text)
  \/ addTag
  \/ \E tag \in Range(form.tags) : removeTag(tag)

SpecTags == InitTags /\ [][NextTags]_vars

\* the routes that create and delete entities
NextCreates ==
  \/ \E body \in ArticleBodies : PostArticle(body)
  \/ \E id \in 3..nextId : DeleteArticle(id)
  \/ \E id \in 3..nextId, body \in CommentBodies : PostComment(id, body)
  \/ \E id \in 3..nextId : DeleteComment(id)
  \/ \E body \in CategoryBodies : PostCategory(body)

SpecCreates == Init /\ [][NextCreates]_vars

\* the article page: its query, its view increment and its like
NextArticlePage ==
  \/ \E id \in PageIds : articleQuery(id)
  \/ \E id \in PageIds, rejected \in BOOLEAN :
       incrementViewMutation(id, rejected)
  \/ \E id \in PageIds, rejected \in BOOLEAN : likeMutation(id, rejected)

SpecArticlePage == Init /\ [][NextArticlePage]_vars

\* the article page's related articles over a store of articles
NextRelated ==
  \/ articlesQuery
  \/ \E id \in PageIds : articleQuery(id)
  \/ \E id \in PageIds, maxResults \in MaxResultsProps :
       RelatedArticles(id, maxResults)

SpecRelated == InitRelated /\ [][NextRelated]_vars

\* the client: its queries, its event handlers and its mutations, each
\* mutation together with the route that serves it
NextClient ==
  \/ articlesQuery
  \/ publishedQuery
  \/ \E id \in PageIds : articleQuery(id)
  \/ \E id \in PageIds : commentsQuery(id)
  \/ \E id \in PageIds : sectionCommentsQuery(id)
  \/ handleCreate
  \/ \E id \in PageIds : handleEdit(id)
  \/ setComment
  \/ setSection
  \/ \E rejected \in BOOLEAN : createMutation(rejected)
  \/ \E rejected \in BOOLEAN : updateMutation(rejected)
  \/ \E id \in PageIds, rejected \in BOOLEAN :
       deleteArticleMutation(id, rejected)
  \/ \E id \in PageIds, rejected \in BOOLEAN : cardLikeMutation(id, rejected)
  \/ \E id \in PageIds, rejected \in BOOLEAN : likeMutation(id, rejected)
  \/ \E id \in PageIds, rejected \in BOOLEAN :
       incrementViewMutation(id, rejected)
  \/ \E id \in PageIds, rejected \in BOOLEAN :
       createCommentMutation(id, rejected)
  \/ \E id \in PageIds, c \in 5..nextId, rejected \in BOOLEAN :
       deleteCommentMutation(id, c, rejected)
  \/ \E id \in PageIds, rejected \in BOOLEAN :
       sectionCreateCommentMutation(id, rejected)

SpecClient == Init /\ [][NextClient]_vars

\* the article routes
NextArticles ==
  \/ Tick
  \/ \E q \in RawQueries : GetArticles(q)
  \/ \E id \in 3..nextId : GetArticle(id)
  \/ \E body \in ArticleBodies : PostArticle(body)
  \/ \E id \in 3..nextId, body \in UpdateBodies : PutArticle(id, body)
  \/ \E id \in 3..nextId : DeleteArticle(id)
  \/ \E id \in 3..nextId : LikeArticle(id)
  \/ \E id \in 3..nextId : PostViews(id)

SpecArticles == Init /\ [][NextArticles]_vars

\* the comment routes and the article routes that change an article
NextComments ==
  \/ Tick
  \/ \E id \in 3..nextId : GetArticle(id)
  \/ \E body \in ArticleBodies : PostArticle(body)
  \/ \E id \in 3..nextId, body \in UpdateBodies : PutArticle(id, body)
  \/ \E id \in 3..nextId : DeleteArticle(id)
  \/ \E id \in 3..nextId : LikeArticle(id)
  \/ \E id \in 3..nextId : PostViews(id)
  \/ \E id \in 3..nextId : GetComments(id)
  \/ \E id \in 3..nextId, body \in CommentBodies : PostComment(id, body)
  \/ \E id \in 3..nextId : DeleteComment(id)

SpecComments == Init /\ [][NextComments]_vars

\* the category operations and the requests that create or update
NextCategories ==
  \/ Tick
  \/ \E body \in ArticleBodies : PostArticle(body)
  \/ \E id \in 3..nextId, body \in UpdateBodies : PutArticle(id, body)
  \/ \E id \in 3..nextId, body \in CommentBodies : PostComment(id, body)
  \/ GetCategories
  \/ \E slug \in {<<"a">>, <<"b", "a">>, <<"A">>} : GetCategoryBySlug(slug)
  \/ \E body \in CategoryBodies : PostCategory(body)
  \/ \E id \in 1..nextId, u \in CategoryUpdates : UpdateCategory(id, u)
  \/ \E id \in 1..nextId : DeleteCategory(id)

SpecCategories == Init /\ [][NextCategories]_vars

\* the two listing routes and the requests that change what they list
NextSearch ==
  \/ Tick
  \/ \E q \in RawQueries : GetArticles(q)
  \/ \E q \in RawQueries : Search(q)
  \/ \E body \in ArticleBodies : PostArticle(body)
  \/ \E id \in 3..nextId, body \in UpdateBodies : PutArticle(id, body)

SpecSearch == Init /\ [][NextSearch]_vars

\* the three deletes and the requests that create what they delete
NextDeletes ==
  \/ Tick
  \/ \E body \in ArticleBodies : PostArticle(body)
  \/ \E id \in 3..nextId, body \in CommentBodies : PostComment(id, body)
  \/ \E body \in CategoryBodies : PostCategory(body)
  \/ \E id \in 3..nextId : DeleteArticle(id)
  \/ \E id \in 3..nextId : DeleteComment(id)
  \/ \E id \in 1..nextId : DeleteCategory(id)

SpecDeletes == Init /\ [][NextDeletes]_vars

\* the routes that address an entity by id or slug, and the creates
NextById ==
  \/ \E body \in ArticleBodies : PostArticle(body)
  \/ \E id \in 3..nextId, body \in CommentBodies : PostComment(id, body)
  \/ \E id \in 3..nextId : GetArticle(id)
  \/ \E id \in 3..nextId, body \in UpdateBodies : PutArticle(id, body)
  \/ \E id \in 3..nextId : DeleteArticle(id)
  \/ \E id \in 3..nextId : LikeArticle(id)
  \/ \E id \in 3..nextId : PostViews(id)
  \/ \E id \in 3..nextId : DeleteComment(id)
  \/ \E slug \in {<<"a">>, <<"b", "a">>, <<"A">>} : GetCategoryBySlug(slug)

SpecById == Init /\ [][NextById]_vars

\* the sitemap and robots routes and the requests that change what the
\* sitemap lists
NextSitemap ==
  \/ Tick
  \/ Sitemap
  \/ Robots
  \/ \E body \in ArticleBodies : PostArticle(body)
  \/ \E id \in 3..nextId, body \in UpdateBodies : PutArticle(id, body)
  \/ \E id \in 3..nextId : DeleteArticle(id)
  \/ \E body \in CategoryBodies : PostCategory(body)
  \/ \E id \in 1..nextId : DeleteCategory(id)

SpecSitemap == Init /\ [][NextSitemap]_vars

\* ------------------------------------------ calls of DatabaseStorage
InsertArticles ==
  {parse(insertArticleSchema, b).data :
     b \in {x \in ArticleBodies : parse(insertArticleSchema, x).ok}}

SearchParamsSet ==
  {<<>>, [published |-> TRUE], [published |-> FALSE],
   [category |-> <<"a">>], [query |-> <<"B">>], [featured |-> TRUE]}

\* DatabaseStorage.createArticle
DbCreateArticleCall(article) ==
  /\ Step
  /\ LET newArticle == DbCreateArticle(article, nextId, now)
     IN /\ dbArticles' = Append(dbArticles, newArticle)
        /\ dbRes' = Response("createArticle", nextId, 0, newArticle)
  /\ nextId' = nextId + 1
  /\ UNCHANGED <<clientVars, memVars, now, dbComments, dbCategories, calls,
               dbLog, auxVars>>

\* DatabaseStorage.deleteArticle
DbDeleteArticleCall(id) ==
  /\ Step
  /\ IF \E i \in 1..Len(dbComments) : dbComments[i].articleId = id
     THEN /\ dbRes' = Response("deleteArticle", id, 0, "error")
          /\ UNCHANGED dbArticles
     ELSE /\ dbArticles' = SelectSeq(dbArticles, LAMBDA a : a.id # id)
          /\ dbRes' = Response("deleteArticle", id, 0, id \in Ids(dbArticles))
  /\ UNCHANGED <<clientVars, memVars, nextId, now, dbComments, dbCategories, calls,
               dbLog, auxVars>>

\* DatabaseStorage.getArticles
DbGetArticlesCall(params) ==
  /\ Step
  /\ \E result \in DbGetArticles(dbArticles, params) :
       dbRes' = Response("getArticles", 0, 0, result)
  /\ UNCHANGED <<clientVars, memVars, nextId, now, dbArticles, dbComments,
               dbCategories, calls, dbLog, auxVars>>

\* DatabaseStorage.toggleLike, up to its SELECT
DbToggleLikeSelect(p, id) ==
  /\ Step
  /\ calls[p].pc = "idle"
  /\ IF id \in Ids(dbArticles)
     THEN /\ calls' = [calls EXCEPT ![p] =
                         [pc |-> "toggleLike", id |-> id,
                          article |-> MapGet(dbArticles, id)]]
          /\ UNCHANGED dbRes
     ELSE /\ dbRes' = Response("toggleLike", id, 0, <<>>)
          /\ UNCHANGED calls
  /\ UNCHANGED <<clientVars, memVars, nextId, now, dbArticles, dbComments,
               dbCategories, dbLog, auxVars>>

\* toggleLike whose UPDATE is SET likes = likes + 1
DbToggleLikeUpdateAtomic(p) ==
  /\ Step
  /\ calls[p].pc = "toggleLike"
  /\ dbArticles' = DbUpdate(dbArticles, calls[p].id,
                            [likes |-> IF calls[p].id \in Ids(dbArticles)
                                       THEN MapGet(dbArticles, calls[p].id).likes + 1
                                       ELSE 0,
                             updatedAt |-> now])
  /\ dbRes' = Response("toggleLike", calls[p].id, 0,
                       IF calls[p].id \in Ids(dbArticles)
                       THEN <<MapGet(dbArticles', calls[p].id)>> ELSE <<>>)
  /\ calls' = [calls EXCEPT ![p] = Idle]
  /\ dbLog' = IF calls[p].id \in Ids(dbArticles)
               THEN Append(dbLog, <<calls[p].pc, calls[p].id>>) ELSE dbLog
  /\ UNCHANGED <<clientVars, memVars, nextId, now, dbComments, dbCategories, auxVars>>

\* DatabaseStorage.toggleLike, its UPDATE ... RETURNING
DbToggleLikeUpdate(p) ==
  /\ Step
  /\ calls[p].pc = "toggleLike"
  /\ dbArticles' = DbUpdate(dbArticles, calls[p].id,
                            [likes |-> calls[p].article.likes + 1,
                             updatedAt |-> now])
  /\ dbRes' = Response("toggleLike", calls[p].id, 0,
                       IF calls[p].id \in Ids(dbArticles)
                       THEN <<MapGet(dbArticles', calls[p].id)>> ELSE <<>>)
  /\ calls' = [calls EXCEPT ![p] = Idle]
  /\ dbLog' = IF calls[p].id \in Ids(dbArticles)
               THEN Append(dbLog, <<calls[p].pc, calls[p].id>>) ELSE dbLog
  /\ UNCHANGED <<clientVars, memVars, nextId, now, dbComments, dbCategories, auxVars>>

\* DatabaseStorage.incrementViews, up to its SELECT
DbIncrementViewsSelect(p, id) ==
  /\ Step
  /\ calls[p].pc = "idle"
  /\ IF id \in Ids(dbArticles)
     THEN /\ calls' = [calls EXCEPT ![p] =
                         [pc |-> "incrementViews", id |-> id,
                          article |-> MapGet(dbArticles, id)]]
          /\ UNCHANGED dbRes
     ELSE /\ dbRes' = Response("incrementViews", id, 0, <<>>)
          /\ UNCHANGED calls
  /\ UNCHANGED <<clientVars, memVars, nextId, now, dbArticles, dbComments,
               dbCategories, dbLog, auxVars>>

\* DatabaseStorage.incrementViews, its UPDATE
DbIncrementViewsUpdate(p) ==
  /\ Step
  /\ calls[p].pc = "incrementViews"
  /\ dbArticles' = DbUpdate(dbArticles, calls[p].id,
                            [views |-> calls[p].article.views + 1,
                             updatedAt |-> now])
  /\ dbRes' = Response("incrementViews", calls[p].id, 0, <<>>)
  /\ calls' = [calls EXCEPT ![p] = Idle]
  /\ dbLog' = IF calls[p].id \in Ids(dbArticles)
               THEN Append(dbLog, <<calls[p].pc, calls[p].id>>) ELSE dbLog
  /\ UNCHANGED <<clientVars, memVars, nextId, now, dbComments, dbCategories, auxVars>>

\* DatabaseStorage.createComment: article_id references articles.id
DbCreateCommentCall(articleId) ==
  /\ Step
  /\ IF articleId \in Ids(dbArticles)
     THEN LET newComment ==
                Spread(parse(insertCommentSchema,
                             Spread(CommentBody,
                                    [articleId |-> <<"string", articleId>>])).data,
                       [id |-> nextId, createdAt |-> now])
          IN /\ dbComments' = Append(dbComments, newComment)
             /\ dbRes' = Response("createComment", nextId, 0, newComment)
             /\ nextId' = nextId + 1
     ELSE /\ dbRes' = Response("createComment", 0, 0, "error")
          /\ UNCHANGED <<dbComments, nextId>>
  /\ UNCHANGED <<clientVars, memVars, now, dbArticles, calls, dbLog,
               dbCategories, auxVars>>

\* DatabaseStorage.getCommentsByArticleId
DbGetCommentsCall(articleId) ==
  /\ Step
  /\ \E result \in DbGetCommentsByArticleId(dbComments, articleId) :
       dbRes' = Response("getCommentsByArticleId", articleId, 0, result)
  /\ UNCHANGED <<clientVars, memVars, nextId, now, dbArticles, dbComments,
               dbCategories, calls, dbLog, auxVars>>

\* DatabaseStorage.updateCategory: one UPDATE ... RETURNING, which the
\* unique constraints on name and slug may reject
DbUpdateCategoryCall(id, category) ==
  /\ Step
  /\ IF id \notin Ids(dbCategories)
     THEN /\ dbRes' = Response("updateCategory", id, 0, <<>>)
          /\ UNCHANGED dbCategories
     ELSE LET row == Spread(MapGet(dbCategories, id), category)
          IN IF \E i \in 1..Len(dbCategories) :
                  /\ dbCategories[i].id # id
                  /\ \/ dbCategories[i].name = row.name
                     \/ dbCategories[i].slug = row.slug
             THEN /\ dbRes' = Response("updateCategory", id, 0, "error")
                  /\ UNCHANGED dbCategories
             ELSE /\ dbCategories' = MapSet(dbCategories, id, row)
                  /\ dbRes' = Response("updateCategory", id, 0, <<row>>)
  /\ UNCHANGED <<clientVars, memVars, nextId, now, dbArticles, dbComments, calls,
               dbLog, auxVars>>

\* DatabaseStorage.deleteCategory
DbDeleteCategoryCall(id) ==
  /\ Step
  /\ dbCategories' = SelectSeq(dbCategories, LAMBDA c : c.id # id)
  /\ dbRes' = Response("deleteCategory", id, 0, id \in Ids(dbCategories))
  /\ UNCHANGED <<clientVars, memVars, nextId, now, dbArticles, dbComments, calls,
               dbLog, auxVars>>

\* updateCategory and deleteCategory of both stores, and the creates
NextCategoryOps ==
  \/ \E body \in ArticleBodies : PostArticle(body)
  \/ \E body \in CategoryBodies : PostCategory(body)
  \/ \E id \in 1..nextId, u \in CategoryUpdates : UpdateCategory(id, u)
  \/ \E id \in 1..nextId : DeleteCategory(id)
  \/ \E a \in InsertArticles : DbCreateArticleCall(a)
  \/ \E id \in 1..nextId, u \in CategoryUpdates : DbUpdateCategoryCall(id, u)
  \/ \E id \in 1..nextId : DbDeleteCategoryCall(id)

SpecCategoryOps == Init /\ [][NextCategoryOps]_vars

NextDb ==
  \/ Tick
  \/ \E a \in InsertArticles : DbCreateArticleCall(a)
  \/ \E id \in 3..nextId : DbDeleteArticleCall(id)
  \/ \E params \in SearchParamsSet : DbGetArticlesCall(params)
  \/ \E p \in 1..MaxCalls, id \in 3..nextId : DbToggleLikeSelect(p, id)
  \/ \E p \in 1..MaxCalls : DbToggleLikeUpdate(p)
  \/ \E p \in 1..MaxCalls, id \in 3..nextId : DbIncrementViewsSelect(p, id)
  \/ \E p \in 1..MaxCalls : DbIncrementViewsUpdate(p)
  \/ \E id \in 3..nextId : DbCreateCommentCall(id)
  \/ \E id \in 3..nextId : DbGetCommentsCall(id)

SpecDb == Init /\ [][NextDb]_vars

\* ------------------------------------------- route handlers under faults
\* The statements of a handler, in order. parse is schema.parse(req.body),
\* call an awaited storage call (or another expression that may throw),
\* check the "if (!x) return res.status(404)" on the result of the call
\* before it, send the res.status(n) that ends the try block.
Stmt(k, status) == [k |-> k, status |-> status]

\* a route: its try block, and whether its catch block tests for ZodError
\* before it sends 500; robots.txt has no try at all
Route(op, try, block, zodBranch) ==
  [op |-> op, try |-> try, block |-> block, zodBranch |-> zodBranch]

ReadRoute(op, status) ==
  Route(op, TRUE, <<Stmt("call", 0), Stmt("send", status)>>, FALSE)

FindRoute(op, status) ==
  Route(op, TRUE,
        <<Stmt("call", 0), Stmt("check", 404), Stmt("send", status)>>, FALSE)

CreateRoute(op) ==
  Route(op, TRUE,
        <<Stmt("parse", 0), Stmt("call", 0), Stmt("send", 201)>>, TRUE)

Routes ==
  {ReadRoute("GET /api/articles", 200),
   Route("GET /api/articles/:id", TRUE,
         <<Stmt("call", 0), Stmt("check", 404), Stmt("call", 0),
           Stmt("send", 200)>>, FALSE),
   CreateRoute("POST /api/articles"),
   Route("PUT /api/articles/:id", TRUE,
         <<Stmt("parse", 0), Stmt("call", 0), Stmt("check", 404),
           Stmt("send", 200)>>, TRUE),
   FindRoute("DELETE /api/articles/:id", 204),
   FindRoute("POST /api/articles/:id/like", 200),
   ReadRoute("POST /api/articles/:id/views", 200),
   ReadRoute("GET /api/articles/:articleId/comments", 200),
   CreateRoute("POST /api/articles/:articleId/comments"),
   FindRoute("DELETE /api/comments/:id", 204),
   ReadRoute("GET /api/categories", 200),
   FindRoute("GET /api/categories/:slug", 200),
   CreateRoute("POST /api/categories"),
   ReadRoute("GET /api/search", 200),
   Route("GET /sitemap.xml", TRUE,
         <<Stmt("call", 0), Stmt("call", 0), Stmt("call", 0),
           Stmt("send", 200)>>, FALSE),
   Route("GET /robots.txt", FALSE, <<Stmt("send", 200)>>, FALSE)}

\* the number of call statements among the first n statements of a block
RECURSIVE CallsBefore(_, _)
CallsBefore(block, n) ==
  IF n = 0 THEN 0
  ELSE CallsBefore(block, n - 1) + (IF block[n].k = "call" THEN 1 ELSE 0)

\* a catch block that sends 500 and lets a ZodError through to a second
\* response
CatchNoReturn(r, error, sent) ==
  IF ~r.try THEN [op |-> r.op, sent |-> sent, escaped |-> TRUE]
  ELSE [op |-> r.op,
        sent |-> IF r.zodBranch /\ error = "ZodError"
                 THEN sent \o <<400, 500>> ELSE Append(sent, 500),
        escaped |-> FALSE]

\* the catch block: 400 and return for a ZodError where the route tests for
\* it, otherwise 500; without a try the exception leaves the handler
Catch(r, error, sent) ==
  IF ~r.try THEN [op |-> r.op, sent |-> sent, escaped |-> TRUE]
  ELSE [op |-> r.op,
        sent |-> Append(sent, IF r.zodBranch /\ error = "ZodError"
                              THEN 400 ELSE 500),
        escaped |-> FALSE]

\* run the block from statement i on; zodError: parse throws; throwsAt: the
\* number of the call that throws, 0 for none; missing: the checked result
\* is undefined
RECURSIVE Exec(_, _, _, _, _, _)
Exec(r, i, sent, zodError, throwsAt, missing) ==
  IF i > Len(r.block) THEN [op |-> r.op, sent |-> sent, escaped |-> FALSE]
  ELSE LET stmt == r.block[i]
       IN CASE stmt.k = "parse" ->
                 IF zodError THEN Catch(r, "ZodError", sent)
                 ELSE Exec(r, i + 1, sent, zodError, throwsAt, missing)
            [] stmt.k = "call" ->
                 IF CallsBefore(r.block, i) = throwsAt
                 THEN Catch(r, "Error", sent)
                 ELSE Exec(r, i + 1, sent, zodError, throwsAt, missing)
            [] stmt.k = "check" ->
                 IF missing
                 THEN [op |-> r.op, sent |-> Append(sent, stmt.status),
                       escaped |-> FALSE]
                 ELSE Exec(r, i + 1, sent, zodError, throwsAt, missing)
            [] stmt.k = "send" ->
                 Exec(r, i + 1, Append(sent, stmt.status), zodError,
                      throwsAt, missing)

\* one request to a route whose storage calls may throw
Serve(r, zodError, throwsAt, missing) ==
  /\ Step
  /\ run' = Exec(r, 1, <<>>, zodError, throwsAt, missing)
  /\ UNCHANGED <<memVars, nextId, now, dbVars, clientVars, view, loop, counted>>

NextFaults ==
  \/ Tick
  \/ \E r \in Routes, zodError \in BOOLEAN, throwsAt \in 0..3,
        missing \in BOOLEAN : Serve(r, zodError, throwsAt, missing)

SpecFaults == Init /\ [][NextFaults]_vars

\* ---------------------------------------------------------------- claims
\* this step handled a request op
Handles(op) == req' # req /\ req'.op = op

StoreUnchanged ==
  /\ articles' = articles
  /\ comments' = comments
  /\ categories' = categories
  /\ nextId' = nextId

IsNewestFirst(list) ==
  \A i \in 1..(Len(list) - 1) : list[i].createdAt >= list[i + 1].createdAt

\* C1: views and likes of every article are integers >= 0, and a request
\* leaves each counter of an article that stays in the store as it was or
\* raises it by 1; views change only by GET /api/articles/:id and POST
\* .../views of that article, likes only by POST .../like of that article.
C1_CountersOnlyIncrement ==
  /\ [](\A i \in 1..Len(articles) :
          /\ Has(articles[i], "views") /\ articles[i].views \in Nat
          /\ Has(articles[i], "likes") /\ articles[i].likes \in Nat)
  /\ [][\A i \in 1..Len(articles), j \in 1..Len(articles') :
          articles[i].id = articles'[j].id =>
            /\ articles'[j].views \in {articles[i].views, articles[i].views + 1}
            /\ articles'[j].likes \in {articles[i].likes, articles[i].likes + 1}
            /\ articles'[j].views # articles[i].views =>
                 /\ req'.op \in {"GET /api/articles/:id",
                                 "POST /api/articles/:id/views"}
                 /\ req'.id = articles[i].id
            /\ articles'[j].likes # articles[i].likes =>
                 /\ req'.op = "POST /api/articles/:id/like"
                 /\ req'.id = articles[i].id]_vars

\* a PUT whose body carried views and likes was answered 200 and the
\* article kept its counters
C1_Witness ==
  /\ req.op = "PUT /api/articles/:id"
  /\ Has(req.input, "views")
  /\ res.status = 200
  /\ res.body.views > 0
  /\ res.body.likes > 0

\* C2: GET /api/articles/:id of a stored id answers 200 and raises the
\* views of that article by exactly 1, changing no other field, no other
\* article, no comment and no category; of an absent id it answers 404 and
\* changes nothing.
C2_GetArticleCountsOneView ==
  [][Handles("GET /api/articles/:id") =>
       /\ comments' = comments
       /\ categories' = categories
       /\ nextId' = nextId
       /\ IF req'.id \in Ids(articles)
          THEN /\ res'.status = 200
               /\ articles' =
                    [i \in 1..Len(articles) |->
                       IF articles[i].id = req'.id
                       THEN [articles[i] EXCEPT !.views = @ + 1]
                       ELSE articles[i]]
          ELSE /\ res'.status = 404
               /\ articles' = articles]_vars

\* the seeded article 3 was fetched while another article was stored
C2_Witness ==
  /\ req.op = "GET /api/articles/:id"
  /\ res.status = 200
  /\ req.id = 3
  /\ res.body.views = 3
  /\ Len(articles) >= 2

\* C3: after n like requests on one article with no other request in
\* between, its stored likes are n more than before the first of them, and
\* the latest response reports the stored likes.
C3_SequentialLikesAdd ==
  likeRun.n > 0 =>
    /\ likeRun.id \in Ids(articles)
    /\ MapGet(articles, likeRun.id).likes = likeRun.base + likeRun.n
    /\ res.status = 200
    /\ res.body = [likes |-> likeRun.base + likeRun.n]

\* two likes in a row
C3_Witness ==
  /\ likeRun.n = 2
  /\ res.body.likes = likeRun.base + 2

\* C4: the UPDATE of DatabaseStorage.toggleLike and incrementViews stores
\* the counter its own SELECT read plus 1, whatever the row holds by then,
\* so two interleaved increments can both succeed and raise it by 1 only.
C4_IncrementWritesWhatItRead ==
  [][\A p \in 1..MaxCalls :
       (/\ calls[p].pc # "idle"
        /\ calls'[p].pc = "idle"
        /\ calls[p].id \in Ids(dbArticles)) =>
         LET before == MapGet(dbArticles, calls[p].id)
             after == MapGet(dbArticles', calls[p].id)
         IN IF calls[p].pc = "toggleLike"
            THEN /\ after.likes = calls[p].article.likes + 1
                 /\ after.views = before.views
            ELSE /\ after.views = calls[p].article.views + 1
                 /\ after.likes = before.likes]_vars

\* a lost update: two toggleLike calls on one seeded row have both
\* finished and its likes are up by 1
C4_Witness ==
  \E i \in 1..Len(seedArticles) :
    /\ seedArticles[i].id \in Ids(dbArticles)
    /\ Cardinality({k \in 1..Len(dbLog) :
                      dbLog[k] = <<"toggleLike", seedArticles[i].id>>}) = 2
    /\ MapGet(dbArticles, seedArticles[i].id).likes = seedArticles[i].likes + 1

\* a body insertArticleSchema accepts
C5Valid(body) ==
  /\ \A k \in {"title", "content", "excerpt", "author", "authorTitle",
               "category"} : Has(body, k) /\ body[k][1] = "string"
  /\ \A k \in {"published", "featured"} : Has(body, k) => body[k][1] = "boolean"

\* C5: POST /api/articles with a valid body answers 201 with an article
\* whose id is in use nowhere in the store, whose views and likes are 0 and
\* whose timestamps are the server's, whatever the body carried; the store
\* then holds exactly that article under that id.
C5_CreateArticle ==
  [][(Handles("POST /api/articles") /\ C5Valid(req'.input)) =>
       /\ res'.status = 201
       /\ res'.body.id \notin Ids(articles) \cup Ids(comments) \cup Ids(categories)
       /\ Has(res'.body, "views") /\ res'.body.views = 0
       /\ Has(res'.body, "likes") /\ res'.body.likes = 0
       /\ res'.body.createdAt = now
       /\ res'.body.updatedAt = now
       /\ Len(articles') = Len(articles) + 1
       /\ res'.body.id \in Ids(articles')
       /\ MapGet(articles', res'.body.id) = res'.body]_vars

\* a body carrying id, views, likes and timestamps was accepted
C5_Witness ==
  /\ req.op = "POST /api/articles"
  /\ Has(req.input, "views")
  /\ Has(req.input, "id")
  /\ res.status = 201

C6Required(op) ==
  CASE op = "POST /api/articles" ->
         {"title", "content", "excerpt", "author", "authorTitle", "category"}
    [] op = "POST /api/articles/:articleId/comments" ->
         {"author", "email", "content"}
    [] op = "POST /api/categories" -> {"name", "slug", "color"}

\* C6: a create request whose body lacks a required field answers 400,
\* names every missing field in its details, and leaves the store as it was.
C6_InvalidCreateChangesNothing ==
  [][\A op \in {"POST /api/articles", "POST /api/articles/:articleId/comments",
                "POST /api/categories"} :
       (Handles(op) /\ \E k \in C6Required(op) : ~Has(req'.input, k)) =>
         /\ res'.status = 400
         /\ \A k \in C6Required(op) : ~Has(req'.input, k) => k \in res'.body
         /\ StoreUnchanged]_vars

\* a comment without content was refused
C6_Witness ==
  /\ req.op = "POST /api/articles/:articleId/comments"
  /\ ~Has(req.input, "content")
  /\ res.status = 400

C7List(C) ==
  MemGetArticles(articles, safeParams([category |-> C, published |-> "true"]))

\* C7: for a category C, the list for category=C and published=true holds
\* each stored article whose category equals C ignoring case and whose
\* published flag is true exactly once, holds no other article, and is in
\* non-increasing createdAt order.
C7_CategoryPublishedList ==
  \A C \in {<<"A">>, <<"a">>, <<"B">>, <<"b">>, <<"A", "b">>} :
    /\ Range(C7List(C)) =
         {a \in Range(articles) :
            /\ toLowerCase(a.category) = toLowerCase(C)
            /\ Has(a, "published") /\ a.published = TRUE}
    /\ \A i, j \in 1..Len(C7List(C)) : i # j => C7List(C)[i] # C7List(C)[j]
    /\ IsNewestFirst(C7List(C))

\* the list for category=a holds a newer article of category A before an
\* older one of category a, and leaves out an unpublished one
C7_Witness ==
  /\ Len(C7List(<<"a">>)) = 2
  /\ C7List(<<"a">>)[1].createdAt > C7List(<<"a">>)[2].createdAt
  /\ C7List(<<"a">>)[1].category # C7List(<<"a">>)[2].category
  /\ \E a \in Range(articles) :
       toLowerCase(a.category) = <<"a">> /\ ~Has(a, "published")

\* C8: for the same rows and the same filter, DatabaseStorage.getArticles
\* and MemStorage.getArticles return the same set of articles.
C8_SameListing ==
  \A params \in SearchParamsSet :
    Range(DbGetArticlesWhere(dbArticles, params)) =
      Range(MemGetArticles(dbArticles, params))

\* C9: every list of timestamped entities, of either implementation, is in
\* non-increasing createdAt order.
C9_ListsNewestFirst ==
  /\ dbRes.op \in {"getArticles", "getCommentsByArticleId"} =>
       IsNewestFirst(dbRes.body)
  /\ \A params \in SearchParamsSet : IsNewestFirst(MemGetArticles(articles, params))
  /\ \A id \in 3..nextId : IsNewestFirst(MemGetCommentsByArticleId(comments, id))

\* a body insertArticleSchema.partial() accepts
C10Valid(body) ==
  /\ \A k \in {"title", "content", "excerpt", "author", "authorTitle",
               "category"} : Has(body, k) => body[k][1] = "string"
  /\ \A k \in {"published", "featured"} : Has(body, k) => body[k][1] = "boolean"

\* C10: updateCategory of an id that is not stored returns undefined, and
\* PUT /api/articles/:id of an id that is not stored, with a valid body,
\* answers 404; neither adds an entity nor changes a stored one.
C10_UpdateOfMissingId ==
  [][/\ (Handles("updateCategory") /\ req'.id \notin Ids(categories)) =>
          res'.body = <<>> /\ StoreUnchanged
     /\ (/\ Handles("PUT /api/articles/:id")
         /\ req'.id \notin Ids(articles)
         /\ C10Valid(req'.input)) =>
          res'.status = 404 /\ StoreUnchanged]_vars

\* a valid PUT to an id that is not stored was answered 404
C10_Witness ==
  /\ req.op = "PUT /api/articles/:id"
  /\ C10Valid(req.input)
  /\ Has(req.input, "published")
  /\ res.status = 404
  /\ Len(articles) >= 1

\* what a delete of req'.id from store leaves: the id is gone, every other
\* entry stays, and nothing changes when the id was not there
DeleteEffect(store, storeAfter) ==
  /\ req'.id \notin Ids(storeAfter)
  /\ storeAfter = SelectSeq(store, LAMBDA e : e.id # req'.id)
  /\ req'.id \notin Ids(store) => storeAfter = store

\* C11: deleteArticle, deleteComment and deleteCategory answer true (204
\* over HTTP) exactly when the id was stored just before the call, and
\* false (404) otherwise; after the call the id is absent, so a repeated
\* delete of the same id finds it absent, answers false and changes nothing.
C11_DeleteReturnsWhetherExisted ==
  [][/\ Handles("DELETE /api/articles/:id") =>
          /\ res'.status = (IF req'.id \in Ids(articles) THEN 204 ELSE 404)
          /\ DeleteEffect(articles, articles')
          /\ UNCHANGED <<comments, categories, nextId>>
     /\ Handles("DELETE /api/comments/:id") =>
          /\ res'.status = (IF req'.id \in Ids(comments) THEN 204 ELSE 404)
          /\ DeleteEffect(comments, comments')
          /\ UNCHANGED <<articles, categories, nextId>>
     /\ Handles("deleteCategory") =>
          /\ res'.body = (req'.id \in Ids(categories))
          /\ DeleteEffect(categories, categories')
          /\ UNCHANGED <<articles, comments, nextId>>]_vars

\* seed article 3 was deleted, and a repeated delete of it was answered 404
\* while seed article 4 is still stored
C11_Witness ==
  /\ req.op = "DELETE /api/articles/:id"
  /\ req.id = 3
  /\ res.status = 404
  /\ Ids(articles) = {4}

\* the stored comments of an article
CommentsOf(cs, articleId) == {c \in Range(cs) : c.articleId = articleId}

\* C12: the comments listed for an article are the stored comments of that
\* article, each once; a post that is accepted stores one new comment on the
\* article of the request, a comment delete removes the comment with that id
\* and no other, and no other request changes the stored comments. So the
\* listing is exactly the comments posted to the article and not yet deleted.
C12_ListedCommentsArePostedNotDeleted ==
  [][/\ Handles("GET /api/articles/:articleId/comments") =>
          /\ Range(res'.body) = CommentsOf(comments, req'.id)
          /\ Len(res'.body) = Cardinality(CommentsOf(comments, req'.id))
     /\ (Handles("POST /api/articles/:articleId/comments")
           /\ res'.status = 201) =>
          /\ comments' = Append(comments, res'.body)
          /\ res'.body.articleId = req'.id
          /\ res'.body.id \notin Ids(comments)
     /\ Handles("DELETE /api/comments/:id") =>
          /\ comments' = SelectSeq(comments, LAMBDA c : c.id # req'.id)
          /\ Len(comments') >= Len(comments) - 1
          /\ \A a \in 3..nextId :
               (\A c \in CommentsOf(comments, a) : c.id # req'.id) =>
                 CommentsOf(comments', a) = CommentsOf(comments, a)
     /\ ~(\/ Handles("DELETE /api/comments/:id")
          \/ Handles("POST /api/articles/:articleId/comments")) =>
          comments' = comments]_vars

\* comments 5 and 6 were posted and one of them was then deleted, leaving
\* exactly one stored comment
C12_Witness ==
  /\ req.op = "DELETE /api/comments/:id"
  /\ res.status = 204
  /\ nextId = 7
  /\ Len(comments) = 1
  /\ Ids(comments) \subseteq {5, 6}
  /\ Ids(articles) = {3, 4}

\* C13: every route that addresses an entity by id or slug answers 404
\* when no entity with that id or slug is stored (for PUT, when the body is
\* one the schema accepts).
C13_AbsentTargetIs404 ==
  [][/\ (/\ req' # req
         /\ req'.op \in {"GET /api/articles/:id", "DELETE /api/articles/:id",
                         "POST /api/articles/:id/like",
                         "POST /api/articles/:id/views",
                         "PUT /api/articles/:id"}
         /\ req'.op = "PUT /api/articles/:id" => C10Valid(req'.input)
         /\ req'.id \notin Ids(articles)) => res'.status = 404
     /\ (Handles("DELETE /api/comments/:id")
           /\ req'.id \notin Ids(comments)) => res'.status = 404
     /\ (Handles("GET /api/categories/:slug")
           /\ \A i \in 1..Len(categories) : categories[i].slug # req'.input)
          => res'.status = 404]_vars

\* the number of <url> elements of a sitemap whose loc is loc
UrlCount(urls, loc) == Cardinality({i \in 1..Len(urls) : urls[i].loc = loc})

C15_SitemapOmitsAdmin ==
  req.op = "GET /sitemap.xml" =>
    \A i \in 1..Len(res.body) :
      /\ \/ res.body[i].loc \in {<<"/">>, <<"/search">>}
         \/ res.body[i].loc[1] \in {"/category/", "/article/"}
      /\ res.body[i].loc \notin robotsTxt.disallow

\* C16: no two stored categories have the same name and no two have the
\* same slug.
C16_CategoryNameAndSlugUnique ==
  \A i, j \in 1..Len(categories) :
    i # j => /\ categories[i].name # categories[j].name
             /\ categories[i].slug # categories[j].slug

\* C17: every stored comment's articleId is the id of a stored article.
C17_CommentsReferToStoredArticles ==
  \A i \in 1..Len(comments) : comments[i].articleId \in Ids(articles)

\* C18: updateCategory and deleteCategory, of MemStorage and of
\* DatabaseStorage, leave every article as it was, whether or not the update
\* changes the category's name.
C18_CategoryChangesLeaveArticles ==
  [][/\ (Handles("updateCategory") \/ Handles("deleteCategory")) =>
          articles' = articles
     /\ dbRes'.op \in {"updateCategory", "deleteCategory"} =>
          dbArticles' = dbArticles
     /\ dbCategories' # dbCategories => dbArticles' = dbArticles]_vars

\* a stored category was renamed, and a stored article still carries a
\* category name that no stored category has
C18_Witness ==
  /\ req.op = "updateCategory"
  /\ Has(req.input, "name")
  /\ res.body # <<>>
  /\ \E i \in 1..Len(articles) :
       \A j \in 1..Len(categories) :
         categories[j].name # articles[i].category

\* the stored article with an id, as a list of at most one
ArticleOf(arts, id) == SelectSeq(arts, LAMBDA a : a.id = id)

\* this step changed what the server answers to the query with a key
ResultChanged(queryKey) ==
  \/ /\ queryKey = articlesKey
     /\ MemGetArticles(articles', <<>>) # MemGetArticles(articles, <<>>)
  \/ /\ queryKey = publishedKey
     /\ MemGetArticles(articles', [published |-> TRUE])
          # MemGetArticles(articles, [published |-> TRUE])
  \/ \E id \in PageIds :
       \/ /\ queryKey = articleKey(id)
          /\ ArticleOf(articles', id) # ArticleOf(articles, id)
       \/ /\ queryKey \in {commentsKey(id), sectionCommentsKey(id)}
          /\ MemGetCommentsByArticleId(comments', id)
               # MemGetCommentsByArticleId(comments, id)

\* C19: after a client mutation that succeeded, every cached query whose
\* server result the mutation changed is invalidated.
C19_ChangedQueriesInvalidated ==
  [][(mutation' # mutation /\ mutation'.status = "success") =>
       \A i \in 1..Len(cache') :
         ResultChanged(cache'[i].queryKey) => cache'[i].isInvalidated]_vars

\* C20: when a client mutation fails, an error notification is shown, and
\* the form state and the cached queries are what they were before.
C20_FailureShowsErrorKeepsState ==
  [][(mutation' # mutation /\ mutation'.status = "error") =>
       /\ Len(toasts') = Len(toasts) + 1
       /\ toasts'[Len(toasts')].variant = "destructive"
       /\ form' = form
       /\ cache' = cache]_vars

\* C21: a run of a route handler sends exactly one response and lets no
\* exception out; the response is 400 when schema.parse threw, and 500 when
\* a storage call threw.
C21_OneResponsePerRequest ==
  /\ [](run.op # "none" => Len(run.sent) = 1 /\ ~run.escaped)
  /\ [][\A r \in Routes, zodError \in BOOLEAN, throwsAt \in 0..3,
           missing \in BOOLEAN :
          (run' = Exec(r, 1, <<>>, zodError, throwsAt, missing)
             /\ steps' # steps /\ now' = now) =>
            /\ (zodError /\ r.block[1].k = "parse") => run'.sent = <<400>>
            /\ (/\ ~(zodError /\ r.block[1].k = "parse")
                /\ throwsAt \in 1..CallsBefore(r.block, Len(r.block))
                /\ ~(missing /\ \E i \in 1..Len(r.block) :
                       /\ r.block[i].k = "check"
                       /\ CallsBefore(r.block, i) < throwsAt))
                 => run'.sent = <<500>>]_vars

\* a storage call of GET /api/articles/:id threw and the handler answered
\* 500, once
C21_Witness ==
  /\ run.op = "GET /api/articles/:id"
  /\ run.sent = <<500>>
  /\ ~run.escaped

\* the flag filter a query-string value stands for: none when the parameter
\* is absent, true for the exact value 'true', false for any other value
FlagAdmits(q, k, a) ==
  Has(q, k) => (Has(a, k) /\ a[k] = (IF q[k] = "true" THEN TRUE ELSE FALSE))

\* the text filters of a query string, the flags left out
TextOnly(q) == [k \in {x \in {"query", "category"} : Truthy(q, x)} |-> q[k]]

\* C22: GET /api/articles and GET /api/search list the stored articles that
\* pass the query and category filters of the request (none for an absent or
\* empty value) and whose published and featured flags pass the coerced
\* filters: none when absent, true for 'true', false for any other value.
C22_QueryCoercion ==
  [][(Handles("GET /api/articles") \/ Handles("GET /api/search")) =>
       /\ res'.status = 200
       /\ res'.body =
            SelectSeq(MemGetArticles(articles, TextOnly(req'.input)),
                      LAMBDA a : /\ FlagAdmits(req'.input, "published", a)
                                 /\ FlagAdmits(req'.input, "featured", a))
       /\ (\A k \in {"query", "category"} : ~Truthy(req'.input, k))
             => \A a \in Range(articles) :
                  (/\ FlagAdmits(req'.input, "published", a)
                   /\ FlagAdmits(req'.input, "featured", a))
                    => a \in Range(res'.body)]_vars

\* a search with published=false and featured=1 listed an article whose two
\* flags are false, and left out a stored article
C22_Witness ==
  /\ req.op = "GET /api/search"
  /\ Has(req.input, "featured") /\ req.input.featured = "1"
  /\ Has(req.input, "published") /\ req.input.published = "false"
  /\ Len(res.body) >= 1
  /\ Len(res.body) < Len(articles)

\* C23: the sidebar's trending list is the five most viewed articles of the
\* fetched published list (all of them when there are fewer), the most
\* viewed first.
C23_TrendingIsTopFiveByViews ==
  [][view'.at # view.at /\ view'.component = "Sidebar" =>
       LET data == getQueryData(cache, publishedKey)
           list == IF data = <<>> THEN <<>> ELSE data[1]
           t == view'.trendingArticles
       IN /\ Len(t) = (IF Len(list) < 5 THEN Len(list) ELSE 5)
          /\ \A i \in 1..Len(t) : \E j \in 1..Len(list) : t[i] = list[j]
          /\ \A i, j \in 1..Len(t) : i # j => t[i].id # t[j].id
          /\ \A i \in 1..(Len(t) - 1) : t[i].views >= t[i + 1].views
          /\ \A j \in 1..Len(list) :
               (\A i \in 1..Len(t) : t[i].id # list[j].id)
                 => \A i \in 1..Len(t) : t[i].views >= list[j].views]_vars

\* the sidebar rendered five of the six published articles, and the one it
\* left out is among the five newest, with fewer views than each of the five
C23_Witness ==
  /\ view.at = steps
  /\ view.component = "Sidebar"
  /\ Len(view.trendingArticles) = 5
  /\ Len(MemGetArticles(articles, [published |-> TRUE])) = 6
  /\ \E j \in 1..5 :
       LET a == MemGetArticles(articles, [published |-> TRUE])[j]
       IN \A i \in 1..5 : /\ view.trendingArticles[i].id # a.id
                          /\ view.trendingArticles[i].views > a.views

\* C24: the related-articles list leaves out the current article, holds only
\* articles of its category or sharing a tag with it, the same-category ones
\* before the tag-only ones, each group newest first, at most maxResults.
C24_RelatedArticles ==
  [][view'.at # view.at /\ view'.component = "RelatedArticles" =>
       LET id == view'.props[1]
           maxResults == view'.props[2]
       IN
         /\ getQueryData(cache, articleKey(id)) # <<>>
         /\ LET cur == getQueryData(cache, articleKey(id))[1]
                data == getQueryData(cache, articlesKey)
                all == IF data = <<>> THEN <<>> ELSE data[1]
                r == view'.related
                SameCategory(a) == a.category = cur.category
                SharesTag(a) == \E t \in Range(cur.tags) : t \in Range(a.tags)
            IN /\ Len(r) <= maxResults
               /\ \A i \in 1..Len(r) :
                    /\ r[i].id # cur.id
                    /\ \E j \in 1..Len(all) : all[j] = r[i]
                    /\ SameCategory(r[i]) \/ SharesTag(r[i])
               /\ \A i, j \in 1..Len(r) : i < j =>
                    /\ SameCategory(r[j]) => SameCategory(r[i])
                    /\ SameCategory(r[i]) = SameCategory(r[j])
                         => r[i].createdAt >= r[j].createdAt]_vars

\* the page listed four related articles, a tag-only match among them that
\* is newer than a same-category article listed before it
C24_Witness ==
  /\ view.component = "RelatedArticles"
  /\ Len(view.related) = 4
  /\ \E i, j \in 1..4 :
       /\ i < j
       /\ view.related[i].category # view.related[j].category
       /\ view.related[i].createdAt < view.related[j].createdAt

\* C25: with the in-memory store, like requests and view increments on an
\* existing article that run concurrently each raise the counter by one: the
\* counter is its first value plus the number of increments executed.
C25_ConcurrentIncrementsAllCount ==
  \A i \in 1..Len(articles) :
    articles[i].id \in PageIds =>
      LET first == ArticleOf(seedArticles, articles[i].id)[1]
      IN /\ articles[i].likes = first.likes + counted.likes[articles[i].id]
         /\ articles[i].views = first.views + counted.views[articles[i].id]

\* two like requests on article 3 are in flight at once, both past their
\* increment and neither answered
C25_Witness ==
  /\ \A p \in 1..2 : /\ loop.tasks[p].pc = "await"
                     /\ loop.tasks[p].op = "POST /api/articles/:id/like"
                     /\ loop.tasks[p].id = 3
  /\ counted.likes[3] = 2

\* C26: every stored article is returned by exactly one of the lists
\* published=true and published=false, and by exactly one of featured=true
\* and featured=false, whether or not it was created with those values.
C26_FlagListsPartition ==
  \A i \in 1..Len(articles) :
    LET id == articles[i].id
        Listed(params) == id \in Ids(MemGetArticles(articles, params))
    IN /\ Listed([published |-> TRUE]) # Listed([published |-> FALSE])
       /\ Listed([featured |-> TRUE]) # Listed([featured |-> FALSE])

\* C27: deriving the sidebar's trending list leaves the cached published
\* list in the order the server returned, and Recent Stories shows the first
\* four of that order.
C27_TrendingLeavesCachedOrder ==
  [][view'.at # view.at /\ view'.component = "Sidebar" =>
       LET data == getQueryData(cache, publishedKey)
           list == IF data = <<>> THEN <<>> ELSE data[1]
       IN /\ getQueryData(cache', publishedKey) = data
          /\ view'.recent = slice(list, 0, 4)]_vars

\* the cached query with this key was invalidated and not fetched since
Invalidated(c, queryKey) ==
  \E i \in 1..Len(c) : c[i].queryKey = queryKey /\ c[i].isInvalidated

\* C28: one load of the article page, the fetch and the page's view
\* increment both reaching the server, raises the stored views by exactly 1
\* (the fetch returns the views it has raised, so after the increment the
\* stored views are the fetched ones); a like from the page, and the refetch
\* its invalidation starts, leave views as they are.
C28_PageLoadCountsOneView ==
  [][/\ ( /\ mutation'.at # mutation.at
          /\ mutation'.name = "Article.incrementViewMutation"
          /\ mutation'.status = "success"
          /\ getQueryData(cache, articleKey(req'.id))[1].views
               = MapGet(articles, req'.id).views )
        => MapGet(articles', req'.id).views
             = getQueryData(cache, articleKey(req'.id))[1].views
     /\ ( /\ mutation'.at # mutation.at
          /\ mutation'.name = "Article.likeMutation" )
        => \A id \in Ids(articles) :
             MapGet(articles', id).views = MapGet(articles, id).views
     /\ ( /\ req' # req
          /\ req'.op = "GET /api/articles/:id"
          /\ Invalidated(cache, articleKey(req'.id)) )
        => MapGet(articles', req'.id).views = MapGet(articles, req'.id).views
    ]_vars

\* the store grew by one entity with an id no stored entity had, and every
\* entity stored before is as it was
GrewByOne(before, after) ==
  /\ Len(after) = Len(before) + 1
  /\ after[Len(after)].id \notin Ids(before)
  /\ \A i \in 1..Len(before) : after[i] = before[i]

\* C29: createArticle, createComment and createCategory never overwrite: the
\* new entity has an id no stored entity has, its store grows by exactly one
\* and every entity stored before is unchanged.
C29_CreatesNeverOverwrite ==
  [][req' # req /\ res'.status = 201 =>
       /\ req'.op = "POST /api/articles" => GrewByOne(articles, articles')
       /\ req'.op = "POST /api/articles/:articleId/comments"
            => GrewByOne(comments, comments')
       /\ req'.op = "POST /api/categories"
            => GrewByOne(categories, categories')]_vars

\* a comment was created into a store that held a comment already
C29_Witness ==
  /\ req.op = "POST /api/articles/:articleId/comments"
  /\ res.status = 201
  /\ Len(comments) = 2

\* the list has no entry twice and no entry that is blank
CleanTags(tags) ==
  /\ \A i, j \in 1..Len(tags) : i # j => tags[i] # tags[j]
  /\ \A i \in 1..Len(tags) : trim(tags[i]) # <<>>

\* C30: from a tag list without duplicates or blank entries, addTag and
\* removeTag keep the list without duplicates and blank entries; addTag puts
\* the trimmed input last and leaves the tags before it in place, and changes
\* nothing when the input is blank or already listed; removeTag takes out
\* the named tag and nothing else, the others keeping their order.
C30_TagListStaysClean ==
  /\ [](CleanTags(form.tags))
  /\ [][view'.at # view.at /\ view'.component = "ArticleForm" =>
          LET t == trim(form.newTag)
          IN /\ view'.props[1] = "addTag" =>
                  IF t = <<>> \/ t \in Range(form.tags)
                  THEN form' = form
                  ELSE form'.tags = Append(form.tags, t)
             /\ view'.props[1] = "removeTag" =>
                  /\ Len(form'.tags) = Len(form.tags) - 1
                  /\ form'.tags = SelectSeq(form.tags,
                                            LAMBDA x : x # view'.props[2])
             /\ view'.props[1] = "setNewTag" => form'.tags = form.tags]_vars

\* removeTag has run and left the tags a and A, in the order they came into
\* the list
C30_Witness ==
  /\ view.component = "ArticleForm"
  /\ view.props[1] = "removeTag"
  /\ form.tags = <<<<"a">>, <<"A">>>>

====
